---- MODULE Spec2Model ----
(***************************************************************************)
(* Model of the booking bot (src/bot.py): the busy-interval merge, the     *)
(* free-slot computation, the collision-checked creation of a calendar     *)
(* event, the booking dialogue that drives them, and the attempts the      *)
(* program makes at its remote calls.                                      *)
(*                                                                         *)
(* Time is counted in minutes of the business timezone: the instant        *)
(* hh:mm of day d is d * MinutesPerDay + hh * 60 + mm.  A clock text       *)
(* "HH:MM" is the pair <<hh, mm>>; a date text is a record that carries    *)
(* its format ("dmy" for DD.MM.YYYY, "ymd" for YYYY-MM-DD) and the day.    *)
(* A Python dict is a function whose DOMAIN is the set of its keys.        *)
(***************************************************************************)
EXTENDS Integers, Sequences, FiniteSets, TLC

\* ------------------------------------------------------------------------
\* Program constants (src/bot.py:69-72) and the shape of a day.
\* ------------------------------------------------------------------------
\* a variant of WORK_START: the day opens an hour later
LateStart == <<9, 0>>

WORK_START == <<8, 0>>
WORK_END == <<18, 0>>
SLOT_STEP_MIN == 15
BUFFER_MIN == 15
MinutesPerHour == 60
MinutesPerDay == 1440
DefaultMinutes == 60

\* ------------------------------------------------------------------------
\* Dicts.
\* ------------------------------------------------------------------------
EmptyDict == [k \in {} |-> TRUE]

Has(d, k) == k \in DOMAIN d

Put(d, k, v) == [x \in (DOMAIN d) \cup {k} |-> IF x = k THEN v ELSE d[x]]

Update(d, e) == [x \in (DOMAIN d) \cup (DOMAIN e) |-> IF x \in DOMAIN e THEN e[x] ELSE d[x]]

\* ------------------------------------------------------------------------
\* Clock and date texts.
\* ------------------------------------------------------------------------
\* a variant of _valid_time that accepts every text
AnyTime(s) == TRUE

\* datetime.strptime(s, "%H:%M") succeeds
_valid_time(s) == s[1] \in 0..23 /\ s[2] \in 0..59

\* datetime.strptime(s, "%d.%m.%Y") succeeds
_valid_date(s) == s.fmt = "dmy"

\* date.strftime("%d.%m.%Y") and date.strftime("%Y-%m-%d")
FormatDMY(d) == [fmt |-> "dmy", day |-> d]

FormatYMD(d) == [fmt |-> "ymd", day |-> d]

\* datetime.strptime(s, "%Y-%m-%d").date() / strptime(s, "%d.%m.%Y").date()
ParseDate(s) == s.day

\* dt.strftime("%H:%M")
FormatHM(t) == <<(t % MinutesPerDay) \div MinutesPerHour, t % MinutesPerHour>>

\* the date of an instant
DateOf(t) == t \div MinutesPerDay

_dt_on(d, hhmm) == d * MinutesPerDay + hhmm[1] * MinutesPerHour + hhmm[2]

\* ------------------------------------------------------------------------
\* The service catalogue.  A name stands for the Russian name at the same
\* index of SERVICES; a duration string is the sequence of its characters,
\* "-" for the dash and "min" for the unit.
\* ------------------------------------------------------------------------
SERVICES ==
  << [name |-> "day_makeup",     price |-> 60,  duration |-> <<"6","0","-","7","5"," ","m","i","n">>],
     [name |-> "evening_makeup", price |-> 80,  duration |-> <<"7","5","-","9","0"," ","m","i","n">>],
     [name |-> "wedding_makeup", price |-> 130, duration |-> <<"9","0","-","1","2","0"," ","m","i","n">>],
     [name |-> "styling",        price |-> 60,  duration |-> <<"4","5","-","7","5"," ","m","i","n">>],
     [name |-> "wedding_hair",   price |-> 120, duration |-> <<"9","0","-","1","2","0"," ","m","i","n">>],
     [name |-> "brows",          price |-> 30,  duration |-> <<"3","0"," ","m","i","n">>] >>

Digits == {"0","1","2","3","4","5","6","7","8","9"}

DigitVal(ch) ==
  CASE ch = "0" -> 0 [] ch = "1" -> 1 [] ch = "2" -> 2 [] ch = "3" -> 3 [] ch = "4" -> 4
    [] ch = "5" -> 5 [] ch = "6" -> 6 [] ch = "7" -> 7 [] ch = "8" -> 8 [] ch = "9" -> 9

\* the scan of _extract_minutes_from_duration_string: nums collected so far,
\* num the digits of the number being read (-1: none)
RECURSIVE ScanNums(_, _, _, _)
ScanNums(s, i, nums, num) ==
  IF i > Len(s) THEN (IF num >= 0 THEN Append(nums, num) ELSE nums)
  ELSE IF s[i] = " " THEN ScanNums(s, i + 1, nums, num)
  ELSE IF s[i] \in Digits
       THEN ScanNums(s, i + 1, nums, (IF num >= 0 THEN num * 10 ELSE 0) + DigitVal(s[i]))
       ELSE ScanNums(s, i + 1, IF num >= 0 THEN Append(nums, num) ELSE nums, -1)

\* a variant of RoundHalf where halves go up
RoundHalfUp(n) == (n + 1) \div 2

\* Python's round(n / 2): halves go to the even neighbour
RoundHalf(n) ==
  IF n % 2 = 0 THEN n \div 2
  ELSE IF (n \div 2) % 2 = 0 THEN n \div 2 ELSE (n \div 2) + 1

_extract_minutes_from_duration_string(duration_str) ==
  LET nums == ScanNums(duration_str, 1, <<>>, -1)
  IN IF Len(nums) = 0 THEN DefaultMinutes
     ELSE IF Len(nums) = 1 THEN nums[1]
     ELSE RoundHalf(nums[1] + nums[2])

_service_duration_minutes(service_name) ==
  IF \E i \in 1..Len(SERVICES) : SERVICES[i].name = service_name
  THEN LET i == CHOOSE j \in 1..Len(SERVICES) :
                  /\ SERVICES[j].name = service_name
                  /\ \A k \in 1..(j - 1) : SERVICES[k].name # service_name
           m == _extract_minutes_from_duration_string(SERVICES[i].duration)
       IN IF m = 0 THEN DefaultMinutes ELSE m
  ELSE DefaultMinutes

\* ------------------------------------------------------------------------
\* The calendar oracle.  An event is [id, st, en, status]; st and en are
\* instants.  Items(cal, d) is the answer of events().list for day d: the
\* events that end after 00:00 and start before 23:59 of the day, ordered
\* by start time.
\* ------------------------------------------------------------------------
RECURSIVE OrderByStart(_)
OrderByStart(S) ==
  IF S = {} THEN <<>>
  ELSE LET e == CHOOSE x \in S : \A y \in S : x.st <= y.st
       IN <<e>> \o OrderByStart(S \ {e})

Items(cal, d) ==
  OrderByStart({e \in cal : e.en > _dt_on(d, <<0, 0>>) /\ e.st < _dt_on(d, <<23, 59>>)})

\* result.sort(key=lambda x: x[0]): a stable insertion of x into a sorted list
RECURSIVE InsertByStart(_, _)
InsertByStart(sorted, x) ==
  IF sorted = <<>> THEN <<x>>
  ELSE IF x[1] < sorted[1][1] THEN <<x>> \o sorted
  ELSE <<sorted[1]>> \o InsertByStart(Tail(sorted), x)

RECURSIVE SortByStart(_)
SortByStart(result) ==
  IF result = <<>> THEN <<>>
  ELSE InsertByStart(SortByStart(SubSeq(result, 1, Len(result) - 1)), result[Len(result)])

Max(a, b) == IF a >= b THEN a ELSE b

Min(a, b) == IF a <= b THEN a ELSE b

\* a variant of MergeLoop that keeps apart two intervals that only touch
RECURSIVE MergeLoopApart(_, _, _)
MergeLoopApart(result, i, merged) ==
  IF i > Len(result) THEN merged
  ELSE LET s == result[i][1]
           e == result[i][2]
           n == Len(merged)
       IN IF n = 0 \/ s >= merged[n][2]
          THEN MergeLoopApart(result, i + 1, Append(merged, <<s, e>>))
          ELSE MergeLoopApart(result, i + 1,
                              [merged EXCEPT ![n] = <<merged[n][1], Max(merged[n][2], e)>>])

\* a variant of MergeLoop that drops an interval instead of extending the
\* last with it
RECURSIVE MergeLoopDropping(_, _, _)
MergeLoopDropping(result, i, merged) ==
  IF i > Len(result) THEN merged
  ELSE LET s == result[i][1]
           e == result[i][2]
           n == Len(merged)
       IN IF n = 0 \/ s > merged[n][2]
          THEN MergeLoopDropping(result, i + 1, Append(merged, <<s, e>>))
          ELSE MergeLoopDropping(result, i + 1, merged)

\* a variant of MergeLoop that extends an interval once only: the interval
\* after an extension opens a new one even when it overlaps
RECURSIVE MergeLoopOnce(_, _, _)
MergeLoopOnce(result, i, merged) ==
  IF i > Len(result) THEN merged
  ELSE LET s == result[i][1]
           e == result[i][2]
           n == Len(merged)
       IN IF n = 0 \/ s > merged[n][2] \/ merged[n] # result[i - 1]
          THEN MergeLoopOnce(result, i + 1, Append(merged, <<s, e>>))
          ELSE MergeLoopOnce(result, i + 1,
                             [merged EXCEPT ![n] = <<merged[n][1], Max(merged[n][2], e)>>])

\* the merging loop of list_busy_intervals (bot.py:286-291)
RECURSIVE MergeLoop(_, _, _)
MergeLoop(result, i, merged) ==
  IF i > Len(result) THEN merged
  ELSE LET s == result[i][1]
           e == result[i][2]
           n == Len(merged)
       IN IF n = 0 \/ s > merged[n][2]
          THEN MergeLoop(result, i + 1, Append(merged, <<s, e>>))
          ELSE MergeLoop(result, i + 1, [merged EXCEPT ![n] = <<merged[n][1], Max(merged[n][2], e)>>])

\* a variant of Padded without the buffer
RECURSIVE Unpadded(_)
Unpadded(items) ==
  IF items = <<>> THEN <<>>
  ELSE (IF items[1].status = "cancelled" THEN <<>>
        ELSE << <<items[1].st, items[1].en>> >>)
       \o Unpadded(Tail(items))

\* the padded intervals of the listed events that are not cancelled
RECURSIVE Padded(_)
Padded(items) ==
  IF items = <<>> THEN <<>>
  ELSE (IF items[1].status = "cancelled" THEN <<>>
        ELSE << <<items[1].st - BUFFER_MIN, items[1].en + BUFFER_MIN>> >>)
       \o Padded(Tail(items))

\* a variant of list_busy_intervals without the except branch: a listing
\* that does not answer yields the events all the same
ListWithoutExcept(date_obj, cal, service, listOk) ==
  IF ~service THEN <<>>
  ELSE MergeLoop(SortByStart(Padded(Items(cal, date_obj))), 1, <<>>)

\* service: a calendar service is configured; listOk: events().list answers
list_busy_intervals(date_obj, cal, service, listOk) ==
  IF ~service THEN <<>>
  ELSE IF ~listOk THEN <<>>
  ELSE MergeLoop(SortByStart(Padded(Items(cal, date_obj))), 1, <<>>)

\* the free intervals inside the working window (bot.py:375-386)
RECURSIVE FreeLoop(_, _, _, _, _, _)
FreeLoop(busy, i, cursor, free, day_start, day_end) ==
  IF i > Len(busy)
  THEN (IF cursor < day_end THEN Append(free, <<cursor, day_end>>) ELSE free)
  ELSE LET bs == busy[i][1]
           be == busy[i][2]
       IN IF be <= day_start \/ bs >= day_end
          THEN FreeLoop(busy, i + 1, cursor, free, day_start, day_end)
          ELSE LET free2 == IF bs > cursor THEN Append(free, <<cursor, Min(bs, day_end)>>) ELSE free
                   cursor2 == Max(cursor, be)
               IN IF cursor2 >= day_end
                  THEN free2
                  ELSE FreeLoop(busy, i + 1, cursor2, free2, day_start, day_end)

\* a variant of SlotLoop that does not compare cur + need with the end of
\* the free interval
RECURSIVE SlotLoopAnyLength(_, _, _, _)
SlotLoopAnyLength(cur, fe, need, now_) ==
  IF cur > fe THEN <<>>
  ELSE (IF cur > now_
        THEN (IF cur < fe
              THEN <<cur>>
              ELSE (IF FormatHM(fe) = WORK_END THEN <<cur>> ELSE <<>>))
        ELSE <<>>)
       \o SlotLoopAnyLength(cur + SLOT_STEP_MIN, fe, need, now_)

\* a variant of SlotLoop without the closing-time exception
RECURSIVE SlotLoopNoClosing(_, _, _, _)
SlotLoopNoClosing(cur, fe, need, now_) ==
  IF cur > fe THEN <<>>
  ELSE (IF cur > now_ /\ cur < fe /\ cur + need <= fe THEN <<cur>> ELSE <<>>)
       \o SlotLoopNoClosing(cur + SLOT_STEP_MIN, fe, need, now_)

\* the while loop over one free interval (bot.py:397-405)
RECURSIVE SlotLoop(_, _, _, _)
SlotLoop(cur, fe, need, now_) ==
  IF cur > fe THEN <<>>
  ELSE (IF cur > now_
        THEN (IF cur < fe
              THEN (IF cur + need <= fe THEN <<cur>> ELSE <<>>)
              ELSE (IF FormatHM(fe) = WORK_END THEN <<cur>> ELSE <<>>))
        ELSE <<>>)
       \o SlotLoop(cur + SLOT_STEP_MIN, fe, need, now_)

\* a variant of FirstCandidate that rounds down to the step
RoundedDown(fs) == fs - ((fs % MinutesPerHour) % SLOT_STEP_MIN)

\* the first candidate of a free interval: its start rounded up to the step
FirstCandidate(fs) ==
  LET minutes_mod == (fs % MinutesPerHour) % SLOT_STEP_MIN
  IN IF minutes_mod # 0 THEN fs + (SLOT_STEP_MIN - minutes_mod) ELSE fs

RECURSIVE SlotsOf(_, _, _, _)
SlotsOf(free, i, need, now_) ==
  IF i > Len(free) THEN <<>>
  ELSE SlotLoop(FirstCandidate(free[i][1]), free[i][2], need, now_) \o SlotsOf(free, i + 1, need, now_)

\* a variant of SortedSet that lists the greatest first
RECURSIVE GreatestFirst(_)
GreatestFirst(S) ==
  IF S = {} THEN <<>>
  ELSE LET m == CHOOSE x \in S : \A y \in S : x >= y
       IN <<m>> \o GreatestFirst(S \ {m})

\* sorted({s for s in slots})
RECURSIVE SortedSet(_)
SortedSet(S) ==
  IF S = {} THEN <<>>
  ELSE LET m == CHOOSE x \in S : \A y \in S : x <= y
       IN <<m>> \o SortedSet(S \ {m})

Range(seq) == {seq[i] : i \in 1..Len(seq)}

\* a variant of compute_free_slots_for_date whose window starts at work
\* start, without the buffer
SlotsWithoutBuffer(date_obj, needed_minutes, cal, service, listOk, now_) ==
  LET day_start == _dt_on(date_obj, WORK_START)
      day_end == _dt_on(date_obj, WORK_END)
  IN IF day_end <= day_start THEN <<>>
     ELSE LET busy == list_busy_intervals(date_obj, cal, service, listOk)
              free == FreeLoop(busy, 1, day_start, <<>>, day_start, day_end)
          IN SortedSet(Range(SlotsOf(free, 1, needed_minutes, now_)))

\* a variant of compute_free_slots_for_date that offers nothing when the
\* listing has not answered
SlotsOnlyWhenListed(date_obj, needed_minutes, cal, service, listOk, now_) ==
  LET day_start == _dt_on(date_obj, WORK_START) + BUFFER_MIN
      day_end == _dt_on(date_obj, WORK_END)
  IN IF day_end <= day_start \/ ~(service /\ listOk) THEN <<>>
     ELSE LET busy == list_busy_intervals(date_obj, cal, service, listOk)
              free == FreeLoop(busy, 1, day_start, <<>>, day_start, day_end)
          IN SortedSet(Range(SlotsOf(free, 1, needed_minutes, now_)))

compute_free_slots_for_date(date_obj, needed_minutes, cal, service, listOk, now_) ==
  LET day_start == _dt_on(date_obj, WORK_START) + BUFFER_MIN
      day_end == _dt_on(date_obj, WORK_END)
  IN IF day_end <= day_start THEN <<>>
     ELSE LET busy == list_busy_intervals(date_obj, cal, service, listOk)
              free == FreeLoop(busy, 1, day_start, <<>>, day_start, day_end)
          IN SortedSet(Range(SlotsOf(free, 1, needed_minutes, now_)))

\* ------------------------------------------------------------------------
\* create_event_on_calendar.  The value returned is [none, d]: None, or
\* the dict d.  The operator yields the value (or that the call raised) and
\* the calendar after the call.
\* ------------------------------------------------------------------------
NoneValue == [none |-> TRUE, d |-> EmptyDict]

Dict(d) == [none |-> FALSE, d |-> d]

\* a variant of Intersects that finds only a booking inside the interval
Within(start_dt, end_dt, b) == b[1] <= start_dt /\ end_dt <= b[2]

\* not (end_dt <= bs or start_dt >= be)
Intersects(start_dt, end_dt, b) == ~(end_dt <= b[1] \/ start_dt >= b[2])

\* a variant of FirstHit that yields the last intersecting interval
LastHit(busy, start_dt, end_dt) ==
  IF \E i \in 1..Len(busy) : Intersects(start_dt, end_dt, busy[i])
  THEN CHOOSE i \in 1..Len(busy) :
         /\ Intersects(start_dt, end_dt, busy[i])
         /\ \A j \in (i + 1)..Len(busy) : ~Intersects(start_dt, end_dt, busy[j])
  ELSE 0

\* a variant of FirstHit that finds no intersection
NoHit(busy, start_dt, end_dt) == 0

\* the first busy interval the loop finds intersecting; 0 when none
FirstHit(busy, start_dt, end_dt) ==
  IF \E i \in 1..Len(busy) : Intersects(start_dt, end_dt, busy[i])
  THEN CHOOSE i \in 1..Len(busy) :
         /\ Intersects(start_dt, end_dt, busy[i])
         /\ \A j \in 1..(i - 1) : ~Intersects(start_dt, end_dt, busy[j])
  ELSE 0

\* the id and the link the calendar gives its n-th inserted event; a text
\* that may be empty is a tuple, and "" is the empty tuple
EventId(n) == <<"e", n>>

HtmlLink(n) == <<"link", n>>

EmptyText == <<>>

\* a variant of Overlapped that never sets the flag
NeverOverlapped(allow_overlap, hit) == FALSE

\* overlapped: the soft check found an intersection (bot.py:323-328)
Overlapped(allow_overlap, hit) == allow_overlap /\ hit # 0

\* the dict returned to report a conflict with busy interval b (bot.py:315-322)
ConflictResult(b) ==
  Dict([conflict |-> TRUE,
        events |-> << [start |-> b[1], end |-> b[2], summary |-> "busy"] >>])

\* a variant of CreatedResult that carries the conflict mark as well
CreatedWithConflict(newId, overlapped) ==
  Dict([eventId |-> EventId(newId), htmlLink |-> HtmlLink(newId), conflict |-> overlapped])

\* the dict returned after the insert (bot.py:353-357)
CreatedResult(newId, overlapped) ==
  Dict(IF overlapped
       THEN [eventId |-> EventId(newId), htmlLink |-> HtmlLink(newId), overlapped |-> TRUE]
       ELSE [eventId |-> EventId(newId), htmlLink |-> HtmlLink(newId)])

\* a variant of OnInsertFailure: an event without id and link
EmptyEvent == Dict([eventId |-> EmptyText, htmlLink |-> EmptyText])

\* what is returned when events().insert raises (bot.py:358-360)
OnInsertFailure == NoneValue

\* what is returned without a calendar service (bot.py:299-301)
OnNoService == NoneValue

\* path: "no_service", "raised", "conflict", "insert_failed" or "inserted"
create_event_on_calendar(booking, cal, service, listOk, insertOk, newId) ==
  IF ~service THEN [path |-> "no_service", value |-> OnNoService, calendar |-> cal]
  ELSE IF ~({"service", "date", "time"} \subseteq DOMAIN booking)
            \/ ~_valid_date(booking["date"]) \/ ~_valid_time(booking["time"])
  THEN [path |-> "raised", value |-> NoneValue, calendar |-> cal]
  ELSE
    LET duration_min == _service_duration_minutes(booking["service"])
        start_dt == _dt_on(ParseDate(booking["date"]), booking["time"])
        end_dt == start_dt + duration_min
        allow_overlap == Has(booking, "allow_overlap") /\ booking["allow_overlap"]
        busy == list_busy_intervals(DateOf(start_dt), cal, service, listOk)
        hit == FirstHit(busy, start_dt, end_dt)
    IN IF ~allow_overlap /\ hit # 0
       THEN [path |-> "conflict", value |-> ConflictResult(busy[hit]), calendar |-> cal]
       ELSE IF ~({"name", "phone"} \subseteq DOMAIN booking)
       THEN [path |-> "raised", value |-> NoneValue, calendar |-> cal]
       ELSE IF ~insertOk
       THEN [path |-> "insert_failed", value |-> OnInsertFailure, calendar |-> cal]
       ELSE [path |-> "inserted",
             value |-> CreatedResult(newId, Overlapped(allow_overlap, hit)),
             calendar |-> cal \cup {[id |-> EventId(newId), st |-> start_dt, en |-> end_dt,
                                     status |-> "confirmed"]}]

\* ------------------------------------------------------------------------
\* Bounds of the model and the sets the inputs are drawn from.
\* ------------------------------------------------------------------------
\* the conversations (one per chat and user) and the user each belongs to:
\* c1 and c2 are two chats of the same user, c3 is the chat of another
Convs == {"c1", "c2", "c3"}

Users == {"u1", "u2"}

Owner(c) == IF c = "c3" THEN "u2" ELSE "u1"

\* the days a date can name, counted from 1; LastDay bounds them
LastDay == 2
Days == 1..LastDay

FirstDay == CHOOSE d \in Days : \A e \in Days : d <= e

\* bookings recorded by one user, and events inserted by direct calls, in
\* one run
MaxBookings == 1

\* services picked in the dialogue (indices of SERVICES)
PickServices == {1}

\* the clock times a slot button is pressed for
PickClocks == {<<11, 30>>, <<18, 0>>}

\* free texts typed as a time (one before the clock's first instant, one
\* that is no time), a date, a name, a phone, a note
TimeTexts == {<<6, 30>>, <<10, 30>>, <<25, 0>>}

DateTexts == {FormatDMY(FirstDay), [fmt |-> "bad", day |-> 0]}

NameTexts == {"Anna"}

PhoneTexts == {"+7"}

NoteTexts == {"-"}

Event(n, d, from, to, status) ==
  [id |-> <<"x", n>>, st |-> _dt_on(d, from), en |-> _dt_on(d, to), status |-> status]

\* events other calendar users may add while a dialogue runs
ExternalEvents ==
  { Event(1, FirstDay, <<11, 0>>, <<12, 7>>, "confirmed"),
    Event(2, FirstDay, <<18, 15>>, <<19, 0>>, "confirmed") }

\* events other calendar users may add before a direct call of the
\* calendar functions: one more that is cancelled, one short one
DirectEvents ==
  ExternalEvents \cup
  { Event(3, FirstDay, <<9, 0>>, <<10, 0>>, "cancelled"),
    Event(4, FirstDay, <<9, 30>>, <<9, 40>>, "confirmed") }

\* the services and clock times of the bookings handed to a direct call
DirectServices == {1, 3}

DirectClocks == {<<9, 15>>, <<10, 30>>, <<18, 0>>}

\* the instants the clock shows
Clock == << _dt_on(FirstDay, <<7, 0>>), _dt_on(FirstDay, <<11, 0>>) >>

States == {"SEL_SERVICE", "ASK_DATE", "ASK_TIME", "ASK_TIME_OTHER", "ASK_NAME",
           "ASK_PHONE", "ASK_NOTES", "BOOK_CONFIRM"}

END == "END"

\* ------------------------------------------------------------------------
\* State.
\* ------------------------------------------------------------------------
VARIABLES
  calendar,   \* the events of the remote calendar
  tick,       \* index in Clock of the present instant
  config,     \* [gcal: a calendar service is configured]
  conv,       \* conv[c]: the state of conversation c, END when there is none
  user_data,  \* user_data[u]: context.user_data of user u, a dict
  chosen,     \* chosen[u]: how the time of u's draft was entered (history)
  kb,         \* kb[c]: the last keyboard of time slots shown in conversation c
  csv,        \* the rows of bookings.csv
  admin,      \* the number of operator notifications send_admin was asked for
  inserted,   \* the number of events the bot inserted
  reviews,    \* the list in reviews.json
  rconv,      \* rconv[c]: the state of the review conversation c, END when none
  last        \* the last step: the handler, its conversation, what it returned

vars == <<calendar, tick, config, conv, user_data, chosen, kb, csv, admin, inserted,
          reviews, rconv, last>>

Now == Clock[tick]

NoKeyboard == [shown |-> FALSE, date |-> FormatYMD(FirstDay), slots |-> <<>>]

\* times_keyboard(date_str, slots): the buttons time:<date>:<HH:MM>
times_keyboard(date_str, slots) == [shown |-> TRUE, date |-> date_str, slots |-> slots]

NoText == <<>>

\* the record of a step of handler h in conversation c; text is the free
\* text the handler was given, NoText for a button
Step(h, c) == [h |-> h, c |-> c, from |-> conv[c], raised |-> FALSE, text |-> NoText]

Typed(h, c, text) == [Step(h, c) EXCEPT !.text = text]

Raised(h, c, text) == [Step(h, c) EXCEPT !.raised = TRUE, !.text = text]

\* context.user_data.setdefault("booking", {})
SetDefaultBooking(ud) == IF Has(ud, "booking") THEN ud ELSE Put(ud, "booking", EmptyDict)

\* context.user_data["booking"][k] = v, after setdefault
SetBooking(ud, k, v) == Put(ud, "booking", Put(SetDefaultBooking(ud)["booking"], k, v))

\* a variant of PopBooking that leaves the draft in place
KeepBooking(ud) == ud

\* context.user_data.pop("booking", None)
PopBooking(ud) == [k \in (DOMAIN ud) \ {"booking"} |-> ud[k]]

Env == <<calendar, tick, config>>

Logs == <<csv, admin, inserted>>

\* the review log and the conversations of review_conv
Reviews == <<reviews, rconv>>

TypeInit ==
  /\ config \in [gcal : BOOLEAN]
  /\ calendar = {}
  /\ conv = [c \in Convs |-> END]
  /\ user_data = [u \in Users |-> EmptyDict]
  /\ chosen = [u \in Users |-> "none"]
  /\ kb = [c \in Convs |-> NoKeyboard]
  /\ csv = <<>>
  /\ admin = 0
  /\ inserted = 0
  /\ reviews = <<>>
  /\ rconv = [c \in Convs |-> END]
  /\ last = [h |-> "init", c |-> "c1", from |-> END, raised |-> FALSE, text |-> NoText]

\* a dialogue is short: the clock stands at its first instant
Init ==
  /\ TypeInit
  /\ tick = 1

\* ------------------------------------------------------------------------
\* The environment: other users of the calendar, and the clock.
\* ------------------------------------------------------------------------
AddEvent(e) ==
  /\ e \notin calendar
  /\ calendar' = calendar \cup {e}
  /\ last' = [h |-> "AddEvent", c |-> "c1", from |-> END, raised |-> FALSE, text |-> NoText]
  /\ UNCHANGED <<tick, config, conv, user_data, chosen, kb, Logs, Reviews>>

Tick ==
  /\ tick < Len(Clock)
  /\ tick' = tick + 1
  /\ last' = [h |-> "Tick", c |-> "c1", from |-> END, raised |-> FALSE, text |-> NoText]
  /\ UNCHANGED <<calendar, config, conv, user_data, chosen, kb, Logs, Reviews>>

\* ------------------------------------------------------------------------
\* The handlers of booking_conv.
\* ------------------------------------------------------------------------
\* the bookings user u has recorded
Sent(u) == Cardinality({i \in 1..Len(csv) : csv[i].username = u})

\* book_start_cb and book_start_cmd: the entry points
book_start(c) ==
  /\ conv[c] = END
  /\ Sent(Owner(c)) < MaxBookings
  /\ conv' = [conv EXCEPT ![c] = "SEL_SERVICE"]
  /\ last' = Step("book_start", c)
  /\ UNCHANGED <<Env, Reviews, Logs, user_data, chosen, kb>>

book_pick_service(c, idx) ==
  /\ conv[c] = "SEL_SERVICE"
  /\ user_data' = [user_data EXCEPT ![Owner(c)] =
                     Put(@, "booking", Put(EmptyDict, "service", SERVICES[idx].name))]
  /\ chosen' = [chosen EXCEPT ![Owner(c)] = "none"]
  /\ conv' = [conv EXCEPT ![c] = "ASK_DATE"]
  /\ last' = Step("book_pick_service", c)
  /\ UNCHANGED <<Env, Reviews, Logs, kb>>

\* the minutes a handler asks slots for: of the draft's service, or 60
MinutesFor(ud) ==
  IF Has(ud, "booking") /\ Has(ud["booking"], "service")
  THEN _service_duration_minutes(ud["booking"]["service"])
  ELSE DefaultMinutes

\* calendar_handle: cal:show:... and cal:change_date:...
calendar_show(c) ==
  /\ conv[c] \in {"ASK_DATE", "ASK_TIME"}
  /\ conv' = [conv EXCEPT ![c] = "ASK_DATE"]
  /\ last' = Step("calendar_show", c)
  /\ UNCHANGED <<Env, Reviews, Logs, user_data, chosen, kb>>

\* calendar_handle: cal:noop, the final else
calendar_noop(c) ==
  /\ conv[c] \in {"ASK_DATE", "ASK_TIME"}
  /\ conv' = [conv EXCEPT ![c] = "ASK_DATE"]
  /\ last' = Step("calendar_noop", c)
  /\ UNCHANGED <<Env, Reviews, Logs, user_data, chosen, kb>>

\* the days the search of nearest_free_days_keyboard goes on for after the
\* anchor as long as its test holds, and the days it shows at most
NearestHorizon == 30

NearestMax == 7

\* while found < 7 and d <= anchor_date + 30: d += 1; a day with slots
\* gets a button (bot.py:951-957).  found is the number of rows.
RECURSIVE NearLoop(_, _, _, _, _, _, _, _)
NearLoop(d, anchor_date, rows, service_minutes, cal, service, listOk, now_) ==
  IF Len(rows) < NearestMax /\ d <= anchor_date + NearestHorizon
  THEN LET slots == compute_free_slots_for_date(d + 1, service_minutes, cal, service, listOk, now_)
       IN NearLoop(d + 1, anchor_date,
                   IF slots # <<>> THEN Append(rows, [day |-> d + 1, count |-> Len(slots)])
                   ELSE rows,
                   service_minutes, cal, service, listOk, now_)
  ELSE rows

\* nearest_free_days_keyboard(anchor_date, service_minutes): the day
\* buttons, the placeholder cal:noop when there is none, and the button
\* back to the anchor.  listOk: the listings of the search answer
nearest_free_days_keyboard(anchor_date, service_minutes, cal, service, listOk, now_) ==
  LET rows == NearLoop(anchor_date, anchor_date, <<>>, service_minutes, cal, service, listOk, now_)
  IN [days |-> rows, placeholder |-> rows = <<>>, back |-> anchor_date]

\* calendar_handle: cal:day:<d>
calendar_day(c, d) ==
  /\ conv[c] \in {"ASK_DATE", "ASK_TIME"}
  /\ \E listOk \in (IF config.gcal THEN BOOLEAN ELSE {FALSE}) :
       LET ud == SetBooking(user_data[Owner(c)], "date", FormatDMY(d))
           slots == compute_free_slots_for_date(d, MinutesFor(ud), calendar, config.gcal, listOk, Now)
       IN /\ user_data' = [user_data EXCEPT ![Owner(c)] = ud]
          /\ IF slots = <<>>
             THEN /\ conv' = [conv EXCEPT ![c] = "ASK_DATE"]
                  /\ kb' = kb
                  /\ \E nearOk \in (IF config.gcal THEN BOOLEAN ELSE {FALSE}) :
                       last' = Step("calendar_day", c) @@
                               [picked |-> d, need |-> MinutesFor(ud), cal |-> calendar,
                                nearOk |-> nearOk,
                                near |-> nearest_free_days_keyboard(
                                           d, MinutesFor(ud), calendar, config.gcal, nearOk, Now)]
             ELSE /\ conv' = [conv EXCEPT ![c] = "ASK_TIME"]
                  /\ kb' = [kb EXCEPT ![c] = times_keyboard(FormatYMD(d), slots)]
                  /\ last' = Step("calendar_day", c)
  /\ UNCHANGED <<Env, Reviews, Logs, chosen>>

\* time_pick_from_slots: the i-th button of the slot keyboard shown
time_pick_from_slots(c, i) ==
  /\ conv[c] = "ASK_TIME"
  /\ kb[c].shown
  /\ i \in 1..Len(kb[c].slots)
  /\ LET d_str == kb[c].date
         t_str == FormatHM(kb[c].slots[i])
         ud1 == SetBooking(user_data[Owner(c)], "date", FormatDMY(ParseDate(d_str)))
         ud2 == SetBooking(ud1, "time", t_str)
     IN user_data' = [user_data EXCEPT ![Owner(c)] = SetBooking(ud2, "allow_overlap", FALSE)]
  /\ chosen' = [chosen EXCEPT ![Owner(c)] = "slot"]
  /\ conv' = [conv EXCEPT ![c] = "ASK_NAME"]
  /\ last' = Step("time_pick_from_slots", c)
  /\ UNCHANGED <<Env, Reviews, Logs, kb>>

\* time_other_click: the button time:other:<date> of the slot keyboard
time_other_click(c) ==
  /\ conv[c] = "ASK_TIME"
  /\ kb[c].shown
  /\ LET ud1 == SetBooking(user_data[Owner(c)], "date", FormatDMY(ParseDate(kb[c].date)))
     IN user_data' = [user_data EXCEPT ![Owner(c)] = SetBooking(ud1, "allow_overlap", TRUE)]
  /\ conv' = [conv EXCEPT ![c] = "ASK_TIME_OTHER"]
  /\ last' = Step("time_other_click", c)
  /\ UNCHANGED <<Env, Reviews, Logs, chosen, kb>>

book_time_other(c, text) ==
  /\ conv[c] = "ASK_TIME_OTHER"
  /\ LET ud == user_data[Owner(c)]
         hasDate == Has(ud, "booking") /\ Has(ud["booking"], "date")
     IN IF ~_valid_time(text)
        THEN /\ last' = Typed("book_time_other", c, text)
             /\ UNCHANGED <<conv, user_data, chosen>>
        ELSE IF hasDate /\ _dt_on(ParseDate(ud["booking"]["date"]), text) <= Now
        THEN /\ last' = Typed("book_time_other", c, text)
             /\ UNCHANGED <<conv, user_data, chosen>>
        ELSE IF ~Has(ud, "booking")
        THEN /\ last' = Raised("book_time_other", c, text)
             /\ UNCHANGED <<conv, user_data, chosen>>
        ELSE /\ user_data' = [user_data EXCEPT ![Owner(c)] = SetBooking(ud, "time", text)]
             /\ chosen' = [chosen EXCEPT ![Owner(c)] = "other"]
             /\ conv' = [conv EXCEPT ![c] = "ASK_NAME"]
             /\ last' = Typed("book_time_other", c, text)
  /\ UNCHANGED <<Env, Reviews, Logs, kb>>

nearest_free_days_handle(c) ==
  /\ conv[c] = "ASK_TIME"
  /\ kb[c].shown
  /\ conv' = [conv EXCEPT ![c] = "ASK_DATE"]
  /\ last' = Step("nearest_free_days_handle", c)
  /\ UNCHANGED <<Env, Reviews, Logs, user_data, chosen, kb>>

book_cancel_cb(c) ==
  /\ conv[c] \in States \ {"BOOK_CONFIRM"}
  /\ user_data' = [user_data EXCEPT ![Owner(c)] = PopBooking(@)]
  /\ chosen' = [chosen EXCEPT ![Owner(c)] = "none"]
  /\ conv' = [conv EXCEPT ![c] = END]
  /\ last' = Step("book_cancel_cb", c)
  /\ UNCHANGED <<Env, Reviews, Logs, kb>>

back_to_menu_cb(c) ==
  /\ conv[c] \in States
  /\ user_data' = [user_data EXCEPT ![Owner(c)] = PopBooking(@)]
  /\ chosen' = [chosen EXCEPT ![Owner(c)] = "none"]
  /\ conv' = [conv EXCEPT ![c] = END]
  /\ last' = Step("back_to_menu_cb", c)
  /\ UNCHANGED <<Env, Reviews, Logs, kb>>

book_date(c, text) ==
  /\ conv[c] = "ASK_DATE"
  /\ IF ~_valid_date(text)
     THEN /\ last' = Typed("book_date", c, text)
          /\ UNCHANGED <<conv, user_data>>
     ELSE /\ user_data' = [user_data EXCEPT ![Owner(c)] =
                             SetBooking(SetBooking(@, "date", text), "allow_overlap", TRUE)]
          /\ conv' = [conv EXCEPT ![c] = "ASK_TIME_OTHER"]
          /\ last' = Typed("book_date", c, text)
  /\ UNCHANGED <<Env, Reviews, Logs, chosen, kb>>

book_time(c, text) ==
  /\ conv[c] = "ASK_TIME"
  /\ IF ~_valid_time(text)
     THEN /\ last' = Typed("book_time", c, text)
          /\ UNCHANGED <<conv, user_data, chosen>>
     ELSE /\ user_data' = [user_data EXCEPT ![Owner(c)] =
                             SetBooking(SetBooking(@, "time", text), "allow_overlap", FALSE)]
          /\ chosen' = [chosen EXCEPT ![Owner(c)] = "typed"]
          /\ conv' = [conv EXCEPT ![c] = "ASK_NAME"]
          /\ last' = Typed("book_time", c, text)
  /\ UNCHANGED <<Env, Reviews, Logs, kb>>

\* context.user_data["booking"][key] = text, which raises without a draft
StoreText(h, c, key, text, to) ==
  IF ~Has(user_data[Owner(c)], "booking")
  THEN /\ last' = Raised(h, c, text)
       /\ UNCHANGED <<conv, user_data>>
  ELSE /\ user_data' = [user_data EXCEPT ![Owner(c)] = SetBooking(@, key, text)]
       /\ conv' = [conv EXCEPT ![c] = to]
       /\ last' = Typed(h, c, text)

book_name(c, text) ==
  /\ conv[c] = "ASK_NAME"
  /\ StoreText("book_name", c, "name", text, "ASK_PHONE")
  /\ UNCHANGED <<Env, Reviews, Logs, chosen, kb>>

book_phone(c, text) ==
  /\ conv[c] = "ASK_PHONE"
  /\ StoreText("book_phone", c, "phone", text, "ASK_NOTES")
  /\ UNCHANGED <<Env, Reviews, Logs, chosen, kb>>

\* the keys book_notes and book_confirm read with b[...] for their messages
SummaryKeys == {"service", "date", "time", "name", "phone", "notes"}

\* replyOk: the unguarded reply_text with the summary is delivered
book_notes(c, text, replyOk) ==
  /\ conv[c] = "ASK_NOTES"
  /\ LET ud == user_data[Owner(c)]
         notes == IF text = "-" THEN "" ELSE text
     IN IF ~Has(ud, "booking")
        THEN /\ last' = Raised("book_notes", c, text)
             /\ UNCHANGED <<conv, user_data>>
        ELSE /\ user_data' = [user_data EXCEPT ![Owner(c)] = SetBooking(ud, "notes", notes)]
             /\ IF SummaryKeys \subseteq DOMAIN SetBooking(ud, "notes", notes)["booking"] /\ replyOk
                THEN /\ conv' = [conv EXCEPT ![c] = "BOOK_CONFIRM"]
                     /\ last' = Typed("book_notes", c, text)
                ELSE /\ conv' = conv
                     /\ last' = Raised("book_notes", c, text)
  /\ UNCHANGED <<Env, Reviews, Logs, chosen, kb>>

\* book_confirm with book_cancel
book_confirm_cancel(c) ==
  /\ conv[c] = "BOOK_CONFIRM"
  /\ user_data' = [user_data EXCEPT ![Owner(c)] = PopBooking(@)]
  /\ chosen' = [chosen EXCEPT ![Owner(c)] = "none"]
  /\ conv' = [conv EXCEPT ![c] = END]
  /\ last' = Step("book_confirm_cancel", c)
  /\ UNCHANGED <<Env, Reviews, Logs, kb>>

\* row.get(k, default)
Get(d, k, default) == IF Has(d, k) THEN d[k] ELSE default

\* the row append_booking_row_csv writes
CsvRow(row) ==
  [timestamp |-> Get(row, "timestamp", ""), username |-> Get(row, "username", ""),
   name |-> Get(row, "name", ""), phone |-> Get(row, "phone", ""),
   service |-> Get(row, "service", ""), date |-> Get(row, "date", ""),
   time |-> Get(row, "time", ""), notes |-> Get(row, "notes", ""),
   eventId |-> Get(row, "eventId", EmptyText), htmlLink |-> Get(row, "htmlLink", EmptyText)]

\* _service_price(service_name)
_service_price(service_name) ==
  IF \E i \in 1..Len(SERVICES) : SERVICES[i].name = service_name
  THEN LET i == CHOOSE j \in 1..Len(SERVICES) :
                  /\ SERVICES[j].name = service_name
                  /\ \A k \in 1..(j - 1) : SERVICES[k].name # service_name
       IN SERVICES[i].price
  ELSE 0

\* the row append_gsheet_row builds from the booking and the event; the
\* user name gets its "@", date_iso is the visit date as YYYY-MM-DD (the
\* month key, its first seven characters, is left out)
SheetRow(booking, event) ==
  [fio |-> Get(booking, "name", ""),
   username |-> IF Get(booking, "username", "") = "" THEN <<>>
                ELSE <<"@", Get(booking, "username", "")>>,
   phone |-> Get(booking, "phone", ""), service |-> Get(booking, "service", ""),
   price |-> _service_price(Get(booking, "service", "")),
   date_visit |-> Get(booking, "date", ""), time_visit |-> Get(booking, "time", ""),
   dur_min |-> _service_duration_minutes(Get(booking, "service", "")),
   note |-> Get(booking, "notes", ""), ts |-> Get(booking, "timestamp", ""),
   event_id |-> IF event.none THEN EmptyText ELSE Get(event.d, "eventId", EmptyText),
   html_link |-> IF event.none THEN EmptyText ELSE Get(event.d, "htmlLink", EmptyText),
   date_iso |-> IF Has(booking, "date") /\ _valid_date(booking["date"])
                THEN FormatYMD(ParseDate(booking["date"])) ELSE [fmt |-> "bad", day |-> 0]]

\* a variant of IsConflict that takes no value for a conflict
NeverConflict(created) == FALSE

\* created and created.get("conflict")
IsConflict(created) == ~created.none /\ Has(created.d, "conflict") /\ created.d["conflict"]

\* a variant of append_gsheet_row without the try around ws.append_row
AppendWithoutExcept(row, sheetOk) ==
  [raised |-> ~sheetOk, sheet |-> [offered |-> TRUE, row |-> row, taken |-> sheetOk]]

\* append_gsheet_row: the row is offered to the spreadsheet.  sheetOk:
\* get_gsheet yields a worksheet and ws.append_row succeeds; a failure of
\* either is logged and the function returns (bot.py:495-524, 576-579)
append_gsheet_row(row, sheetOk) ==
  [raised |-> FALSE, sheet |-> [offered |-> TRUE, row |-> row, taken |-> sheetOk]]

\* send_admin: the message is sent to every id of ADMIN_IDS.  adminOk:
\* ADMIN_IDS is not empty and send_message succeeds; a failure is logged
\* and the loop goes on (bot.py:135-144)
send_admin(adminOk) == [raised |-> FALSE, delivered |-> adminOk]

\* the calls the calendar can answer: none without a service
Answers == IF config.gcal THEN BOOLEAN ELSE {FALSE}

\* the record of a step of book_confirm with book_send: the draft b handed
\* to create_event_on_calendar, the calendar before the call, how the time
\* of the draft was entered, which calls the calendar answered, the path
\* through create_event_on_calendar and its value, the row offered to the
\* spreadsheet, whether the operator message was delivered, and the number
\* of CSV rows and of operator notifications before the step
SendStep(c, b, listOk, insertOk, r) ==
  [h |-> "book_confirm_send", c |-> c, from |-> conv[c], raised |-> FALSE, text |-> NoText,
   booking |-> b, cal |-> calendar, how |-> chosen[Owner(c)], listOk |-> listOk,
   insertOk |-> insertOk, path |-> r.path, created |-> r.value, relistOk |-> FALSE,
   sheet |-> [offered |-> FALSE, row |-> EmptyDict, taken |-> FALSE], delivered |-> FALSE,
   rows |-> Len(csv), asked |-> admin]

\* book_confirm with book_send.  listOk, insertOk: the calendar answers the
\* listing and the insert; relistOk: it answers the listing after a conflict;
\* sheetOk: the spreadsheet takes the row; adminOk: send_admin delivers the
\* operator message (ADMIN_IDS is set and the sending succeeds)
book_confirm_send(c) ==
  /\ conv[c] = "BOOK_CONFIRM"
  /\ Sent(Owner(c)) < MaxBookings
  /\ \E listOk \in Answers, insertOk \in Answers :
       LET u == Owner(c)
           ud == user_data[u]
           stored == Has(ud, "booking")
           b == Update(IF stored THEN ud["booking"] ELSE EmptyDict,
                       [timestamp |-> Now, username |-> u])
           keep(bk) == IF stored THEN Put(ud, "booking", bk) ELSE ud
           r == create_event_on_calendar(b, calendar, config.gcal, listOk, insertOk, inserted + 1)
           created == r.value
           step == SendStep(c, b, listOk, insertOk, r)
       IN IF r.path = "raised"
          THEN /\ user_data' = [user_data EXCEPT ![u] = keep(b)]
               /\ last' = [step EXCEPT !.raised = TRUE]
               /\ UNCHANGED <<conv, chosen, kb, calendar, Logs>>
          ELSE IF IsConflict(created)
          THEN \E relistOk \in Answers :
                 LET d == ParseDate(b["date"])
                     slots == compute_free_slots_for_date(d, _service_duration_minutes(b["service"]),
                                                          calendar, config.gcal, relistOk, Now)
                 IN /\ user_data' = [user_data EXCEPT ![u] = keep(b)]
                    /\ kb' = [kb EXCEPT ![c] = times_keyboard(FormatYMD(d), slots)]
                    /\ conv' = [conv EXCEPT ![c] = "ASK_TIME"]
                    /\ last' = [step EXCEPT !.relistOk = relistOk]
                    /\ UNCHANGED <<chosen, calendar, Logs>>
          ELSE \E sheetOk \in BOOLEAN, adminOk \in BOOLEAN :
                 LET b2 == Update(b, IF created.none
                                     THEN [eventId |-> EmptyText, htmlLink |-> EmptyText]
                                     ELSE [eventId |-> Get(created.d, "eventId", EmptyText),
                                           htmlLink |-> Get(created.d, "htmlLink", EmptyText)])
                     appended == append_gsheet_row(SheetRow(b2, created), sheetOk)
                     wrote == [step EXCEPT !.sheet = appended.sheet]
                     notice == send_admin(adminOk)
                 IN /\ calendar' = r.calendar
                    /\ inserted' = IF created.none THEN inserted ELSE inserted + 1
                    /\ csv' = Append(csv, CsvRow(b2))
                    /\ kb' = kb
                    /\ IF appended.raised \/ ~(SummaryKeys \subseteq DOMAIN b2)
                       THEN /\ admin' = admin
                            /\ user_data' = [user_data EXCEPT ![u] = keep(b2)]
                            /\ chosen' = chosen
                            /\ conv' = conv
                            /\ last' = [wrote EXCEPT !.raised = TRUE]
                       ELSE IF notice.raised
                       THEN /\ admin' = admin + 1
                            /\ user_data' = [user_data EXCEPT ![u] = keep(b2)]
                            /\ chosen' = chosen
                            /\ conv' = conv
                            /\ last' = [wrote EXCEPT !.raised = TRUE]
                       ELSE /\ admin' = admin + 1
                            /\ user_data' = [user_data EXCEPT ![u] = PopBooking(keep(b2))]
                            /\ chosen' = [chosen EXCEPT ![u] = "none"]
                            /\ conv' = [conv EXCEPT ![c] = END]
                            /\ last' = [wrote EXCEPT !.delivered = notice.delivered]
  /\ UNCHANGED <<tick, config, Reviews>>

\* the fallback /start: the menu is shown and the conversation goes on
start(c) ==
  /\ conv[c] \in States
  /\ last' = Step("start", c)
  /\ UNCHANGED <<Env, Reviews, Logs, conv, user_data, chosen, kb>>

\* ------------------------------------------------------------------------
\* The handlers of reviews_conv, and reviews.json.  The file is a list of
\* dicts; it exists from the import on (bot.py:108-110).
\* ------------------------------------------------------------------------
\* the entries a run writes at most
MaxReviews == 3

\* the texts typed as a name and as a review
ReviewNames == {"Anna", "Vera"}

ReviewTexts == {"good"}

\* a variant of load_reviews that finds no earlier entry
LoadNothing(file, readable) == <<>>

\* load_reviews(): the list in the file; [] when open or json.load raises
load_reviews(file, readable) == IF readable THEN file ELSE <<>>

\* save_reviews(revs): the file is written anew with the whole list
save_reviews(revs) == revs

\* review_start_cb and review_start_cmd: the entry points
review_start(c) ==
  /\ rconv[c] = END
  /\ rconv' = [rconv EXCEPT ![c] = "ASK_REVIEW_NAME"]
  /\ last' = [Step("review_start", c) EXCEPT !.from = rconv[c]]
  /\ UNCHANGED <<Env, Logs, reviews, conv, user_data, chosen, kb>>

\* review_name: the draft of the review is begun; replyOk: reply_text,
\* called once, succeeds
review_name(c, text, replyOk) ==
  /\ rconv[c] = "ASK_REVIEW_NAME"
  /\ user_data' = [user_data EXCEPT ![Owner(c)] = Put(@, "review", [name |-> text])]
  /\ rconv' = IF replyOk THEN [rconv EXCEPT ![c] = "ASK_REVIEW_TEXT"] ELSE rconv
  /\ last' = [Typed("review_name", c, text) EXCEPT !.from = rconv[c], !.raised = ~replyOk]
  /\ UNCHANGED <<Env, Logs, reviews, conv, chosen, kb>>

\* review_text: r is the dict of the draft (a new one when there is none),
\* updated in place; the log is loaded, r appended, the log saved; the
\* operator is notified; after the reply the draft is popped
review_text(c, txt, adminOk, replyOk) ==
  /\ rconv[c] = "ASK_REVIEW_TEXT"
  /\ Len(reviews) < MaxReviews
  /\ LET ud == user_data[Owner(c)]
         r == Update(Get(ud, "review", EmptyDict),
                     [text |-> txt, date |-> FormatDMY(DateOf(Now)), username |-> Owner(c)])
         loaded == load_reviews(reviews, TRUE)
         notice == send_admin(adminOk)
     IN /\ reviews' = save_reviews(Append(loaded, r))
        /\ admin' = admin + 1
        /\ IF replyOk
           THEN /\ user_data' = [user_data EXCEPT ![Owner(c)] =
                                   [k \in (DOMAIN ud) \ {"review"} |-> ud[k]]]
                /\ rconv' = [rconv EXCEPT ![c] = END]
           ELSE /\ user_data' = [user_data EXCEPT ![Owner(c)] =
                                   IF Has(ud, "review") THEN Put(ud, "review", r) ELSE ud]
                /\ rconv' = rconv
        /\ last' = [Typed("review_text", c, txt) EXCEPT !.from = rconv[c], !.raised = ~replyOk]
                   @@ [before |-> reviews, entry |-> r, delivered |-> notice.delivered]
  /\ UNCHANGED <<Env, csv, inserted, conv, chosen, kb>>

\* ------------------------------------------------------------------------
\* Direct calls of the two calendar functions, on any draft.
\* ------------------------------------------------------------------------
\* compute_free_slots_for_date(d, minutes of service idx)
ListSlots(d, idx, listOk) ==
  /\ last' = [h |-> "compute_free_slots_for_date", c |-> "c1", from |-> END, raised |-> FALSE,
              text |-> NoText, day |-> d, need |-> _service_duration_minutes(SERVICES[idx].name),
              cal |-> calendar, listOk |-> listOk,
              slots |-> compute_free_slots_for_date(
                          d, _service_duration_minutes(SERVICES[idx].name),
                          calendar, config.gcal, listOk, Now)]
  /\ UNCHANGED <<Env, Reviews, Logs, conv, user_data, chosen, kb>>

\* create_event_on_calendar(booking) for a complete draft
Reserve(d, clock, idx, allow_overlap, listOk, insertOk) ==
  /\ inserted < MaxBookings
  /\ LET booking == [service |-> SERVICES[idx].name, date |-> FormatDMY(d), time |-> clock,
                     allow_overlap |-> allow_overlap, name |-> "Anna", phone |-> "+7",
                     notes |-> ""]
         r == create_event_on_calendar(booking, calendar, config.gcal, listOk, insertOk,
                                       inserted + 1)
     IN /\ calendar' = r.calendar
        /\ inserted' = IF r.path = "inserted" THEN inserted + 1 ELSE inserted
        /\ last' = [h |-> "create_event_on_calendar", c |-> "c1", from |-> END,
                    raised |-> r.path = "raised", text |-> NoText, booking |-> booking,
                    cal |-> calendar, listOk |-> listOk, insertOk |-> insertOk,
                    path |-> r.path, created |-> r.value]
  /\ UNCHANGED <<tick, config, conv, user_data, chosen, kb, csv, admin, Reviews>>

\* ------------------------------------------------------------------------
\* Remote calls.  net is what the remote end does at the successive
\* attempts of one call: it answers, or the attempt ends in an exception.
\* TimedOut, NetworkError and BadRequest are the library's classes;
\* TimedOut and BadRequest are subclasses of NetworkError, so a clause
\* "except (TimedOut, NetworkError)" takes all three.  Forbidden is not.
\* ------------------------------------------------------------------------
Outcomes == {"ok", "TimedOut", "NetworkError", "BadRequest", "Forbidden"}

\* the transient failures of the network
Transient == {"TimedOut", "NetworkError"}

CaughtAsNetworkError == {"TimedOut", "NetworkError", "BadRequest"}

\* delays = [0, 1.5, 3.0], in tenths of a second
delays == <<0, 15, 30>>

\* what the remote end does at each attempt a call can make
Nets == [1..Len(delays) -> Outcomes]

\* the outcome of a call: the attempts made, the waits before them, and
\* how the call ended: "returned" (the answer), "None" (the failure was
\* swallowed) or "raised"
CallResult(attempts, waits, result) ==
  [attempts |-> attempts, waits |-> waits, result |-> result]

\* for d in delays: sleep(d); try: return await ...; except (TimedOut,
\* NetworkError): go on; after the loop: return None
RECURSIVE RetryLoop(_, _, _)
RetryLoop(net, i, waits) ==
  IF i > Len(delays) THEN CallResult(i - 1, waits, "None")
  ELSE LET waited == Append(waits, delays[i])
       IN IF net[i] = "ok" THEN CallResult(i, waited, "returned")
          ELSE IF net[i] \in CaughtAsNetworkError THEN RetryLoop(net, i + 1, waited)
          ELSE CallResult(i, waited, "raised")

safe_reply_text(net) == RetryLoop(net, 1, <<>>)

\* the clause "except BadRequest" follows "except (TimedOut, NetworkError)"
\* and is never taken
safe_edit_message_text(net) == RetryLoop(net, 1, <<>>)

\* one attempt inside try/except Exception: a failure is logged
OnceSwallowed(net) == CallResult(1, <<>>, IF net[1] = "ok" THEN "returned" ELSE "None")

\* query.answer(): one attempt; a BadRequest of a stale query is ignored,
\* everything else is raised (the model's BadRequest is not a stale query)
safe_answer_callback(net) == CallResult(1, <<>>, IF net[1] = "ok" THEN "returned" ELSE "raised")

\* the remote calls of the program, by the method called
RemoteCalls ==
  {"events.list", "events.insert", "append_row", "send_message", "answer",
   "reply_text", "edit_message_text"}

\* the function of the program that makes the call, applied to net:
\* list_busy_intervals, create_event_on_calendar, append_gsheet_row and
\* send_admin make one attempt inside try/except Exception
Call(call, net) ==
  CASE call = "reply_text" -> safe_reply_text(net)
    [] call = "edit_message_text" -> safe_edit_message_text(net)
    [] call = "answer" -> safe_answer_callback(net)
    [] OTHER -> OnceSwallowed(net)

\* one remote call, made while the remote end behaves as net says; the
\* calendar is called only when a calendar service is configured
RemoteCall(call, net) ==
  /\ call \in {"events.list", "events.insert"} => config.gcal
  /\ last' = [h |-> "remote_call", c |-> "c1", from |-> END,
              raised |-> Call(call, net).result = "raised", text |-> NoText,
              call |-> call, net |-> net, attempts |-> Call(call, net).attempts,
              waits |-> Call(call, net).waits, result |-> Call(call, net).result]
  /\ UNCHANGED <<Env, Reviews, Logs, conv, user_data, chosen, kb>>

\* ------------------------------------------------------------------------
\* Specifications.
\* ------------------------------------------------------------------------
Handlers(c) ==
  \/ book_start(c)
  \/ \E idx \in PickServices : book_pick_service(c, idx)
  \/ calendar_show(c)
  \/ calendar_noop(c)
  \/ \E d \in Days : calendar_day(c, d)
  \/ \E i \in 1..Len(kb[c].slots) :
       FormatHM(kb[c].slots[i]) \in PickClocks /\ time_pick_from_slots(c, i)
  \/ time_other_click(c)
  \/ \E text \in TimeTexts : book_time_other(c, text)
  \/ nearest_free_days_handle(c)
  \/ book_cancel_cb(c)
  \/ back_to_menu_cb(c)
  \/ \E text \in DateTexts : book_date(c, text)
  \/ \E text \in TimeTexts : book_time(c, text)
  \/ \E text \in NameTexts : book_name(c, text)
  \/ \E text \in PhoneTexts : book_phone(c, text)
  \/ \E text \in NoteTexts, replyOk \in BOOLEAN : book_notes(c, text, replyOk)
  \/ book_confirm_cancel(c)
  \/ book_confirm_send(c)
  \/ start(c)

\* one dialogue, in chat c1, beside the other users of the calendar
Next ==
  \/ \E e \in ExternalEvents : AddEvent(e)
  \/ Handlers("c1")

Spec == Init /\ [][Next]_vars

\* the same user opens the dialogue in a second chat, c2, picks a service
\* there and goes back to the menu
OtherChat ==
  \/ book_start("c2")
  \/ \E idx \in PickServices : book_pick_service("c2", idx)
  \/ back_to_menu_cb("c2")

NextShared ==
  \/ \E e \in ExternalEvents : AddEvent(e)
  \/ Handlers("c1")
  \/ OtherChat

SpecShared == Init /\ [][NextShared]_vars

\* the calendar functions called directly while the calendar and the
\* clock change
NextDirect ==
  \/ \E e \in DirectEvents : AddEvent(e)
  \/ Tick
  \/ \E d \in Days, idx \in DirectServices, listOk \in Answers : ListSlots(d, idx, listOk)
  \/ \E clock \in DirectClocks, idx \in DirectServices, allow_overlap \in BOOLEAN,
        listOk \in Answers, insertOk \in Answers :
       Reserve(FirstDay, clock, idx, allow_overlap, listOk, insertOk)

SpecDirect == Init /\ [][NextDirect]_vars

\* compute_free_slots_for_date called directly, over more events (one
\* across work end that covers event 2, one whose padding overlaps the
\* padding of event 1 and touches that of event 8, one across work start,
\* one from 10:00 to 11:00) and more durations, while the calendar and the
\* clock change
SlotEvents ==
  DirectEvents \cup
  { Event(5, FirstDay, <<17, 30>>, <<19, 30>>, "confirmed"),
    Event(6, FirstDay, <<11, 30>>, <<13, 0>>, "confirmed"),
    Event(7, FirstDay, <<7, 0>>, <<8, 20>>, "confirmed"),
    Event(8, FirstDay, <<10, 0>>, <<11, 0>>, "confirmed") }

SlotServices == {1, 3, 4}

NextSlots ==
  \/ \E e \in SlotEvents : AddEvent(e)
  \/ Tick
  \/ \E d \in Days, idx \in SlotServices, listOk \in Answers : ListSlots(d, idx, listOk)

SpecSlots == Init /\ [][NextSlots]_vars

\* one chat picks days on a calendar where the first day is taken, a long
\* absence follows it until the day NearestHorizon days after the first,
\* and the day after the absence may be taken too
AbsenceEnd == FirstDay + NearestHorizon

NearEvents ==
  { Event(9, FirstDay, <<0, 0>>, <<23, 59>>, "confirmed"),
    [id |-> <<"x", 10>>, st |-> _dt_on(FirstDay + 1, <<0, 0>>),
     en |-> _dt_on(AbsenceEnd, <<23, 59>>), status |-> "confirmed"],
    Event(11, AbsenceEnd + 1, <<0, 0>>, <<23, 59>>, "confirmed") }

NearChat == "c1"

NextNear ==
  \/ \E e \in NearEvents : AddEvent(e)
  \/ Tick
  \/ book_start(NearChat)
  \/ \E idx \in PickServices : book_pick_service(NearChat, idx)
  \/ \E d \in Days : calendar_day(NearChat, d)
  \/ nearest_free_days_handle(NearChat)

SpecNear == Init /\ [][NextNear]_vars

\* reviews written in the two chats of one user and in the chat of another
NextReview ==
  \E c \in Convs :
    \/ review_start(c)
    \/ \E text \in ReviewNames, replyOk \in BOOLEAN : review_name(c, text, replyOk)
    \/ \E txt \in ReviewTexts, adminOk \in BOOLEAN, replyOk \in BOOLEAN :
         review_text(c, txt, adminOk, replyOk)

SpecReview == Init /\ [][NextReview]_vars

\* the two duration functions called directly: on every string of at most
\* MaxDurationLen characters of DurationChars, the empty string first and
\* then each string after the one it extends, and on the names of the
\* catalogue and one that is not in it
DurationChars == {"0", "5", "7", "-", " "}

MaxDurationLen == 5

DurationStrings ==
  IF last.h = "_extract_minutes_from_duration_string"
  THEN {Append(last.str, ch) : ch \in DurationChars}
  ELSE {<<>>}

ServiceNames == {SERVICES[i].name : i \in 1..Len(SERVICES)} \cup {"unknown"}

ExtractMinutes(duration_str) ==
  /\ Len(duration_str) <= MaxDurationLen
  /\ last' = [h |-> "_extract_minutes_from_duration_string", c |-> "c1", from |-> END,
              raised |-> FALSE, text |-> NoText, str |-> duration_str,
              minutes |-> _extract_minutes_from_duration_string(duration_str)]
  /\ UNCHANGED <<Env, Reviews, Logs, conv, user_data, chosen, kb>>

ServiceMinutes(service_name) ==
  /\ last' = [h |-> "_service_duration_minutes", c |-> "c1", from |-> END,
              raised |-> FALSE, text |-> NoText, name |-> service_name,
              minutes |-> _service_duration_minutes(service_name)]
  /\ UNCHANGED <<Env, Reviews, Logs, conv, user_data, chosen, kb>>

NextDuration ==
  \/ \E duration_str \in DurationStrings : ExtractMinutes(duration_str)
  \/ \E service_name \in ServiceNames : ServiceMinutes(service_name)

SpecDuration == Init /\ [][NextDuration]_vars

\* the remote calls made one by one, whatever the remote end does
NextNet == \E call \in RemoteCalls, net \in Nets : RemoteCall(call, net)

SpecNet == Init /\ [][NextNet]_vars

\* two users, each in one chat, book the slot RaceClock picked from the
\* keyboard, on a calendar nobody else writes to
RaceClock == <<11, 30>>

\* the handlers on the way from the entry point to Send by a slot button
SlotPath(c) ==
  \/ book_start(c)
  \/ \E idx \in PickServices : book_pick_service(c, idx)
  \/ calendar_day(c, FirstDay)
  \/ \E i \in 1..Len(kb[c].slots) :
       FormatHM(kb[c].slots[i]) = RaceClock /\ time_pick_from_slots(c, i)
  \/ \E text \in NameTexts : book_name(c, text)
  \/ \E text \in PhoneTexts : book_phone(c, text)
  \/ \E text \in NoteTexts : book_notes(c, text, TRUE)
  \/ book_confirm_send(c)

NextRace == SlotPath("c1") \/ SlotPath("c3")

SpecRace == Init /\ [][NextRace]_vars

\* the two users book slots picked from the keyboard, on a calendar nobody
\* else writes to, and the listing of every collision check answers;
\* ListedClocks[c] are the clock times a slot button is pressed for in chat c
ListedClocks == ("c1" :> {<<11, 30>>}) @@ ("c3" :> {<<12, 0>>, <<13, 0>>})

ListedPath(c) ==
  \/ book_start(c)
  \/ \E idx \in PickServices : book_pick_service(c, idx)
  \/ calendar_day(c, FirstDay)
  \/ \E i \in 1..Len(kb[c].slots) :
       FormatHM(kb[c].slots[i]) \in ListedClocks[c] /\ time_pick_from_slots(c, i)
  \/ \E text \in NameTexts : book_name(c, text)
  \/ \E text \in PhoneTexts : book_phone(c, text)
  \/ \E text \in NoteTexts : book_notes(c, text, TRUE)
  \/ book_confirm_send(c) /\ last'.listOk

NextListed == ListedPath("c1") \/ ListedPath("c3")

SpecListed == Init /\ [][NextListed]_vars

\* ------------------------------------------------------------------------
\* The month grid.  A calendar date is <<year, month, day>>; the navigation
\* buttons of build_month_keyboard carry a month <<year, month>>.
\* ------------------------------------------------------------------------
\* the days of month m of year y, as date arithmetic counts them
DaysInMonth(y, m) ==
  IF m = 2 THEN (IF (y % 4 = 0 /\ y % 100 # 0) \/ y % 400 = 0 THEN 29 ELSE 28)
  ELSE IF m \in {4, 6, 9, 11} THEN 30 ELSE 31

\* date + timedelta(days=n), n >= 0; day 0 stands for the eve of the first
RECURSIVE PlusDays(_, _)
PlusDays(date, n) ==
  LET y == date[1]
      m == date[2]
      d == date[3]
  IN IF d + n <= DaysInMonth(y, m) THEN <<y, m, d + n>>
     ELSE PlusDays(IF m = 12 THEN <<y + 1, 1, 0>> ELSE <<y, m + 1, 0>>,
                   n - (DaysInMonth(y, m) - d))

\* date - timedelta(days=n), n >= 0
RECURSIVE MinusDays(_, _)
MinusDays(date, n) ==
  LET y == date[1]
      m == date[2]
      d == date[3]
  IN IF d - n >= 1 THEN <<y, m, d - n>>
     ELSE LET py == IF m = 1 THEN y - 1 ELSE y
              pm == IF m = 1 THEN 12 ELSE m - 1
          IN MinusDays(<<py, pm, DaysInMonth(py, pm)>>, n - d)

\* the days the anchor is moved by to find the neighbouring months
NavDays == 31

\* build_month_keyboard(year, month, anchor): the months the buttons
\* "previous month" and "next month" show (bot.py:670-680)
build_month_keyboard(year, month, anchor) ==
  LET prev_month == MinusDays(anchor, NavDays)
      next_month == PlusDays(anchor, NavDays)
  IN [year |-> year, month |-> month, anchor |-> anchor,
      prev |-> <<prev_month[1], prev_month[2]>>,
      next |-> <<next_month[1], next_month[2]>>]

\* the years of the dates the grid is shown for: a common year and a leap year
GridYears == {2027, 2028}

GridDates == {date \in GridYears \X (1..12) \X (1..31) : date[3] <= DaysInMonth(date[1], date[2])}

GridStep(h, grid) ==
  /\ last' = [h |-> h, c |-> "c1", from |-> END, raised |-> FALSE, text |-> NoText, grid |-> grid]
  /\ UNCHANGED <<Env, Reviews, Logs, conv, user_data, chosen, kb>>

\* book_pick_service and cal:show:today: the grid of today's month, anchored
\* at today (bot.py:842-847, 857-862)
ShowToday(today) == GridStep("show_today", build_month_keyboard(today[1], today[2], today))

\* cal:show:Y-M, a navigation button of the grid shown: the grid of that
\* month, anchored at its 15th (bot.py:864-871)
ShowMonth(target) ==
  /\ "grid" \in DOMAIN last
  /\ target \in {last.grid.prev, last.grid.next}
  /\ target[1] \in GridYears
  /\ GridStep("show_month", build_month_keyboard(target[1], target[2], <<target[1], target[2], 15>>))

\* cal:change_date:D: the grid of the month of the picked day D, anchored at D
\* (bot.py:872-878)
ChangeDate(d) == GridStep("change_date", build_month_keyboard(d[1], d[2], d))

NextGrid ==
  \/ \E today \in GridDates : ShowToday(today)
  \/ \E target \in GridYears \X (1..12) : ShowMonth(target)
  \/ \E d \in GridDates : ChangeDate(d)

SpecGrid == Init /\ [][NextGrid]_vars

\* ------------------------------------------------------------------------
\* Properties.  A step of create_event_on_calendar, direct or within
\* book_confirm, is described by its record in last.
\* ------------------------------------------------------------------------
StartOf(booking) == _dt_on(ParseDate(booking["date"]), booking["time"])

EndOf(booking) == StartOf(booking) + _service_duration_minutes(booking["service"])

\* the events of cal on the day of the booking that are not cancelled and
\* whose interval, padded by the buffer, intersects [start, end)
Colliding(booking, cal) ==
  LET d == ParseDate(booking["date"])
  IN {e \in cal : /\ e.en > _dt_on(d, <<0, 0>>) /\ e.st < _dt_on(d, <<23, 59>>)
                  /\ e.status # "cancelled"
                  /\ StartOf(booking) < e.en + BUFFER_MIN
                  /\ e.st - BUFFER_MIN < EndOf(booking)}

\* the indices of the listed busy intervals that intersect [start, end)
Hits(booking, cal) ==
  LET busy == list_busy_intervals(ParseDate(booking["date"]), cal, TRUE, TRUE)
  IN {i \in 1..Len(busy) : StartOf(booking) < busy[i][2] /\ busy[i][1] < EndOf(booking)}

DirectCall == last.h = "create_event_on_calendar"

\* C1: every slot that compute_free_slots_for_date offers for a day and a
\* duration is accepted without a conflict by create_event_on_calendar with
\* allow_overlap = false, when the calendar answers and its events are the
\* ones the slots were computed from.
C1_OfferedSlotNeverConflicts ==
  (DirectCall /\ config.gcal /\ last.listOk /\ ~last.booking["allow_overlap"])
  => LET d == ParseDate(last.booking["date"])
         offered == compute_free_slots_for_date(
                      d, _service_duration_minutes(last.booking["service"]),
                      last.cal, TRUE, TRUE, Now)
     IN StartOf(last.booking) \in Range(offered) => ~IsConflict(last.created)

\* C2: when Send of a draft whose time was picked from the slot buttons
\* meets a conflict, the dialogue is moved to ASK_TIME and shows a slot list
\* recomputed for the same date that does not contain the conflicting start
\* time (the calendar answering the new listing).
C2_ConflictRelistExcludesStart ==
  (last.h = "book_confirm_send" /\ IsConflict(last.created) /\ last.how = "slot"
     /\ last.relistOk)
  => /\ conv[last.c] = "ASK_TIME"
     /\ kb[last.c].shown
     /\ kb[last.c].date = FormatYMD(ParseDate(last.booking["date"]))
     /\ StartOf(last.booking) \notin Range(kb[last.c].slots)

\* C3: with allow_overlap = false, create_event_on_calendar returns a
\* conflict whenever [start, end) intersects a buffer-padded busy interval
\* of start's day (the calendar answering the listing); the conflict
\* carries the first intersecting interval in start order, and the calendar
\* is left unchanged.
C3_ConflictOnIntersection ==
  (DirectCall /\ config.gcal /\ last.listOk /\ ~last.booking["allow_overlap"]
     /\ Colliding(last.booking, last.cal) # {})
  => LET busy == list_busy_intervals(ParseDate(last.booking["date"]), last.cal, TRUE, TRUE)
         hits == Hits(last.booking, last.cal)
     IN /\ IsConflict(last.created)
        /\ \E i \in hits :
             /\ \A j \in hits : busy[i][1] <= busy[j][1]
             /\ last.created.d["events"] =
                  << [start |-> busy[i][1], end |-> busy[i][2], summary |-> "busy"] >>
        /\ calendar = last.cal

\* C3 happens: a conflict is returned for a draft that intersects two busy
\* intervals
C3_Witness ==
  /\ DirectCall /\ config.gcal /\ last.listOk /\ ~last.booking["allow_overlap"]
  /\ Cardinality(Hits(last.booking, last.cal)) >= 2
  /\ IsConflict(last.created)

OverlappedFlag(created) ==
  ~created.none /\ Has(created.d, "overlapped") /\ created.d["overlapped"]

\* C4: with allow_overlap = true, create_event_on_calendar never returns a
\* conflict; when the insert succeeds the result is a created event with id
\* and link, the event is in the calendar, and the overlapped flag is set
\* exactly when [start, end) intersects a buffer-padded busy interval that
\* the listing of start's day yields (none when the listing fails).
C4_OverlapNeverConflicts ==
  (DirectCall /\ last.booking["allow_overlap"])
  => /\ ~IsConflict(last.created)
     /\ (config.gcal /\ last.insertOk)
        => /\ ~last.created.none
           /\ {"eventId", "htmlLink"} \subseteq DOMAIN last.created.d
           /\ last.created.d["eventId"] # EmptyText
           /\ OverlappedFlag(last.created)
                <=> (last.listOk /\ Colliding(last.booking, last.cal) # {})
           /\ calendar = last.cal \cup
                {[id |-> last.created.d["eventId"], st |-> StartOf(last.booking),
                  en |-> EndOf(last.booking), status |-> "confirmed"]}

\* C4 happens: an event is created over a busy interval and flagged
C4_Witness ==
  /\ DirectCall /\ last.booking["allow_overlap"] /\ config.gcal /\ last.insertOk
  /\ Colliding(last.booking, last.cal) # {}
  /\ OverlappedFlag(last.created)

\* the insert call is made: the hard check, when it applies, found nothing
InsertCalled ==
  \/ last.booking["allow_overlap"]
  \/ ~last.listOk
  \/ Colliding(last.booking, last.cal) = {}

\* C5: when no calendar service is configured, or the insert call fails,
\* create_event_on_calendar returns None - not a conflict, not a created
\* event - and the calendar is left unchanged.
C5_UnreachableYieldsNone ==
  (DirectCall /\ (~config.gcal \/ (InsertCalled /\ ~last.insertOk)))
  => /\ ~last.raised
     /\ last.created.none
     /\ calendar = last.cal

\* C5 happens: the insert call is made and fails
C5_Witness ==
  /\ DirectCall /\ config.gcal /\ InsertCalled /\ ~last.insertOk
  /\ last.listOk /\ ~last.booking["allow_overlap"]
  /\ last.created.none

Draft(c) == user_data[Owner(c)]["booking"]

HasDraft(c) == Has(user_data[Owner(c)], "booking")

\* C6: every Send in BOOK_CONFIRM for which create_event_on_calendar
\* returns a created event or None ends the dialogue, appends exactly one
\* row to the CSV, offers one row to the spreadsheet, asks send_admin for
\* the operator notification and discards the draft; with None the row has
\* an empty event id and link.
C6_SendRecordsAndEnds ==
  (last.h = "book_confirm_send" /\ last.path # "raised" /\ ~IsConflict(last.created))
  => /\ conv[last.c] = END
     /\ Len(csv) = last.rows + 1
     /\ last.sheet.offered
     /\ admin = last.asked + 1
     /\ ~HasDraft(last.c)
     /\ last.created.none
          => (csv[Len(csv)].eventId = EmptyText /\ csv[Len(csv)].htmlLink = EmptyText)

\* C7: in BOOK_CONFIRM the allow_overlap flag of the draft is false exactly
\* when its time was selected from the offered slot buttons, and true when
\* the time was typed as free text or entered through "other time".
C7_OverlapFlagTellsHowTimeWasChosen ==
  \A c \in Convs :
    (conv[c] = "BOOK_CONFIRM" /\ HasDraft(c) /\ Has(Draft(c), "allow_overlap"))
    => (Draft(c)["allow_overlap"] = FALSE <=> chosen[Owner(c)] = "slot")

C9_OrderAndCompleteDraft ==
  /\ (last.h \notin {"init", "AddEvent"} /\ conv[last.c] # last.from)
       => /\ conv[last.c] = "BOOK_CONFIRM" => last.from = "ASK_NOTES"
          /\ conv[last.c] = "ASK_NOTES" => last.from = "ASK_PHONE"
          /\ conv[last.c] = "ASK_PHONE" => last.from = "ASK_NAME"
          /\ conv[last.c] = "ASK_NAME" => last.from \in {"ASK_TIME", "ASK_TIME_OTHER"}
  /\ \A c \in Convs :
       conv[c] = "BOOK_CONFIRM" => (HasDraft(c) /\ SummaryKeys \subseteq DOMAIN Draft(c))

\* the free texts that are no date, and those that are no time
BadDateTexts == {t \in DateTexts : t.fmt # "dmy"}

BadTimeTexts == {t \in TimeTexts : t[1] > 23 \/ t[2] > 59}

\* C10: a free text that cannot be parsed - a bad date in ASK_DATE, a bad
\* time in ASK_TIME or ASK_TIME_OTHER - leaves the dialogue in the same
\* state and leaves the draft unchanged.
C10_BadTextChangesNothing ==
  [][((last'.h = "book_date" /\ last'.text \in BadDateTexts)
        \/ (last'.h \in {"book_time", "book_time_other"} /\ last'.text \in BadTimeTexts))
     => (conv' = conv /\ user_data' = user_data)]_vars

\* C10 happens: a bad time was typed in ASK_TIME_OTHER over a draft that
\* holds a date
C10_Witness ==
  /\ last.h = "book_time_other" /\ last.text \in BadTimeTexts
  /\ HasDraft(last.c) /\ Has(Draft(last.c), "date")
  /\ conv[last.c] = "ASK_TIME_OTHER"

\* a step of compute_free_slots_for_date, described by its record in last
SlotsCall == last.h = "compute_free_slots_for_date"

\* the listing of the step recorded in last yields nothing: no calendar
\* service is configured, or events().list does not answer
ListingFails == ~config.gcal \/ ~last.listOk

\* C13: the calendar fails open.  When no calendar service is configured or
\* the listing does not answer, list_busy_intervals yields the empty list,
\* compute_free_slots_for_date returns the slots of an empty calendar, and
\* the collision check of create_event_on_calendar finds no conflict.
C13_ListingFailsOpen ==
  /\ (SlotsCall /\ ListingFails) =>
       /\ list_busy_intervals(last.day, last.cal, config.gcal, last.listOk) = <<>>
       /\ last.slots = compute_free_slots_for_date(last.day, last.need, {}, TRUE, TRUE, Now)
  /\ (DirectCall /\ ListingFails) =>
       /\ list_busy_intervals(ParseDate(last.booking["date"]), last.cal,
                              config.gcal, last.listOk) = <<>>
       /\ last.path # "conflict"
       /\ ~IsConflict(last.created)

\* the listing does not answer for a day on which the calendar holds events
\* that would have removed slots
C13_Witness ==
  /\ SlotsCall /\ config.gcal /\ ~last.listOk
  /\ \E e \in last.cal : e.status # "cancelled" /\ DateOf(e.st) = last.day
  /\ last.slots # <<>>
  /\ last.slots # compute_free_slots_for_date(last.day, last.need, last.cal, TRUE, TRUE, Now)

\* the working window of day d: work start plus the buffer, and work end
DayStart(d) == _dt_on(d, WORK_START) + BUFFER_MIN

DayEnd(d) == _dt_on(d, WORK_END)

\* the minutes of day d
MinutesOf(d) == _dt_on(d, <<0, 0>>) .. _dt_on(d, <<23, 59>>)

\* the step grid
OnGrid(t) == t % SLOT_STEP_MIN = 0

\* the buffer-padded intervals of the events of cal that a listing of day d
\* yields, as a set; none when the listing yields nothing
PaddedEvents(cal, d, answers) ==
  IF ~answers THEN {}
  ELSE {<<e.st - BUFFER_MIN, e.en + BUFFER_MIN>> :
          e \in {x \in cal : /\ x.en > _dt_on(d, <<0, 0>>) /\ x.st < _dt_on(d, <<23, 59>>)
                             /\ x.status # "cancelled"}}

\* the padded busy intervals of the step of compute_free_slots_for_date
\* recorded in last
BusyOfCall == PaddedEvents(last.cal, last.day, config.gcal /\ last.listOk)

\* [a, b] lies inside the working window of day d and no interval of B
\* reaches into it: it lies wholly inside one free sub-interval
InsideFree(a, b, d, B) ==
  /\ DayStart(d) <= a /\ b <= DayEnd(d)
  /\ \A p \in B : ~(a < p[2] /\ p[1] < b)

\* C16: a slot other than the day-end instant is offered by
\* compute_free_slots_for_date if and only if it is on the step grid,
\* strictly after now, and [slot, slot + requiredMinutes] lies wholly inside
\* one free sub-interval of the working window [08:15, 18:00] minus the
\* buffer-padded busy intervals.
C16_OfferedIffFitsFreeInterval ==
  SlotsCall =>
    /\ Range(last.slots) \subseteq MinutesOf(last.day)
    /\ \A t \in MinutesOf(last.day) \ {DayEnd(last.day)} :
         t \in Range(last.slots) <=>
           /\ OnGrid(t)
           /\ t > Now
           /\ InsideFree(t, t + last.need, last.day, BusyOfCall)

\* a call with busy intervals and a clock inside the working window: a grid
\* time is kept out by a busy interval, another by the clock, and a slot is
\* offered that ends no later than a busy interval starts
C16_Witness ==
  /\ SlotsCall /\ BusyOfCall # {} /\ Now > DayStart(last.day)
  /\ \E t \in MinutesOf(last.day) \ {DayEnd(last.day)} :
       /\ OnGrid(t) /\ t > Now /\ InsideFree(t, t, last.day, {})
       /\ ~InsideFree(t, t + last.need, last.day, BusyOfCall)
       /\ InsideFree(t, t + last.need, last.day, {})
  /\ \E t \in Range(last.slots), p \in BusyOfCall : t + last.need <= p[1]

\* a free sub-interval of day d ends at day end: no interval of B covers
\* the instants just before it
FreeUntilDayEnd(d, B) == \A p \in B : ~(p[1] < DayEnd(d) /\ DayEnd(d) <= p[2])

\* C17: the closing-time exception.  The day-end instant 18:00 is offered
\* by compute_free_slots_for_date, whatever the required duration, exactly
\* when it is strictly after now and a free sub-interval ends at day end;
\* no other offered slot has an appointment that ends after 18:00.
C17_ClosingTimeException ==
  SlotsCall =>
    /\ DayEnd(last.day) \in Range(last.slots) <=>
         (DayEnd(last.day) > Now /\ FreeUntilDayEnd(last.day, BusyOfCall))
    /\ \A t \in Range(last.slots) : t + last.need > DayEnd(last.day) => t = DayEnd(last.day)

\* 18:00 is offered although a busy interval starts there, and the grid
\* time before it, which is free, is not
C17_Witness ==
  /\ SlotsCall
  /\ DayEnd(last.day) \in Range(last.slots)
  /\ \E p \in BusyOfCall : p[1] = DayEnd(last.day)
  /\ LET t == DayEnd(last.day) - SLOT_STEP_MIN
     IN /\ t > Now /\ InsideFree(t, t, last.day, BusyOfCall)
        /\ t \notin Range(last.slots)

\* the grid times of the working window of day d that are after now_
GridAfter(d, now_) == {t \in DayStart(d)..DayEnd(d) : OnGrid(t) /\ t > now_}

\* C18: for a day with an empty busy set, compute_free_slots_for_date
\* returns exactly the grid times from 08:15 to 18:00 that are strictly
\* after now and whose appointment ends by 18:00, and 18:00 itself when it is
\* strictly after now.
C18_EmptyDayGridThatFits ==
  (SlotsCall /\ BusyOfCall = {}) =>
    Range(last.slots) =
      {t \in GridAfter(last.day, Now) :
         t + last.need <= DayEnd(last.day) \/ t = DayEnd(last.day)}

\* C18 as stated: for a day with an empty busy set and every duration the
\* whole grid from 08:15 to 18:00 inclusive, after now, is returned.
C18_EmptyDayWholeGrid ==
  (SlotsCall /\ BusyOfCall = {}) => Range(last.slots) = GridAfter(last.day, Now)

\* an empty day with the clock inside the window: the slots start after
\* now, stop where the appointment no longer fits, and end with 18:00
C18_Witness ==
  /\ SlotsCall /\ BusyOfCall = {} /\ Now > DayStart(last.day)
  /\ last.slots # <<>>
  /\ last.slots[1] = Now + SLOT_STEP_MIN
  /\ last.slots[Len(last.slots)] = DayEnd(last.day)
  /\ DayEnd(last.day) - SLOT_STEP_MIN \notin Range(last.slots)

\* C19: the list returned by compute_free_slots_for_date is strictly
\* ascending, so it holds no time twice, for every set of busy intervals and
\* every duration.
C19_SlotsStrictlyAscending ==
  SlotsCall => \A i \in 1..(Len(last.slots) - 1) : last.slots[i] < last.slots[i + 1]

\* slots on both sides of a busy interval
C19_Witness ==
  /\ SlotsCall /\ Len(last.slots) >= 3
  /\ \E p \in BusyOfCall, i \in 1..(Len(last.slots) - 1) :
       last.slots[i] < p[1] /\ p[2] <= last.slots[i + 1]

\* C20: scenario A.  With the hours 08:00-18:00, buffer 15 and step 15 of
\* the configuration, no busy intervals, a duration of 60 minutes and
\* now = 07:00 of the same day, the first slot offered by
\* compute_free_slots_for_date is 08:15 and the last is 18:00.
C20_ScenarioA ==
  (/\ SlotsCall /\ last.need = 60 /\ BusyOfCall = {}
   /\ Now = _dt_on(last.day, <<7, 0>>)) =>
    /\ last.slots # <<>>
    /\ last.slots[1] = _dt_on(last.day, <<8, 15>>)
    /\ last.slots[Len(last.slots)] = _dt_on(last.day, <<18, 0>>)

\* the call of scenario A on a calendar without events
C20_Witness ==
  /\ SlotsCall /\ last.need = 60 /\ last.cal = {} /\ config.gcal /\ last.listOk
  /\ Now = _dt_on(last.day, <<7, 0>>)
  /\ FormatHM(last.slots[1]) = <<8, 15>>
  /\ FormatHM(last.slots[Len(last.slots)]) = <<18, 0>>
  /\ Len(last.slots) = 37

\* C11: each booking conversation has its own draft.  No step taken in one
\* conversation changes or removes the draft of another conversation that
\* is active (not ended) and holds a draft at that moment.
C11_DraftsAreIsolated ==
  [][\A c \in Convs :
       (/\ conv[c] # END /\ HasDraft(c)
        /\ last'.c # c /\ last'.h \notin {"AddEvent", "Tick"})
         => user_data'[Owner(c)] = user_data[Owner(c)]]_vars

\* a step of book_confirm with book_send whose calendar outcome is not a
\* conflict: the code goes on to the local record
SendWithoutConflict ==
  /\ last.h = "book_confirm_send"
  /\ last.path \in {"no_service", "insert_failed", "inserted"}

\* C15: a failure of the spreadsheet append or of the operator notification
\* never aborts a booking.  After a non-conflict outcome the local record is
\* written, the dialogue ends and the draft is discarded, whether or not the
\* spreadsheet took the row and the operator message was delivered.
C15_SheetAndAdminFailuresSwallowed ==
  SendWithoutConflict =>
    /\ ~last.raised
    /\ Len(csv) = last.rows + 1
    /\ last.sheet.offered
    /\ admin = last.asked + 1
    /\ conv[last.c] = END
    /\ ~HasDraft(last.c)

\* a booking sent while the spreadsheet refuses the row and the operator
\* message is not delivered
C15_Witness ==
  /\ SendWithoutConflict
  /\ ~last.sheet.taken /\ ~last.delivered
  /\ Len(csv) = last.rows + 1
  /\ conv[last.c] = END /\ ~HasDraft(last.c)

\* a step of one remote call, described by its record in last
NetCall == last.h = "remote_call"

\* the waits before the attempts grow
WaitsGrow(waits) == \A i \in 1..(Len(waits) - 1) : waits[i] < waits[i + 1]

\* C14: every remote call (calendar listing, calendar insert, spreadsheet
\* append, message delivery) is retried on a transient network failure: a
\* call whose first attempt fails that way is attempted again, at most
\* three times in all, with growing waits, before it gives up.
C14_EveryRemoteCallRetries ==
  (NetCall /\ last.net[1] \in Transient) =>
    /\ last.attempts >= 2
    /\ last.attempts <= Len(delays)
    /\ WaitsGrow(last.waits)

\* a step of book_confirm with book_send for a time picked from the slot
\* keyboard: the draft holds allow_overlap = false
SlotSend ==
  /\ last.h = "book_confirm_send" /\ last.how = "slot"
  /\ Has(last.booking, "allow_overlap") /\ ~last.booking["allow_overlap"]

\* the events the bot created that start at instant t
BotEventsAt(cal, t) == {e \in cal : e.id[1] = "e" /\ e.st = t}

\* C12: double booking is not prevented.  A Send with allow_overlap = false
\* whose listing yields nothing creates its event whatever the calendar
\* holds, so two conversations that were offered the same slot can both end
\* with an event created for it; with allow_overlap = false an event is
\* created over a colliding one only that way.
C12_DoubleBookingNotPrevented ==
  (SlotSend /\ config.gcal) =>
    /\ (~last.listOk /\ last.insertOk) =>
         /\ last.path = "inserted"
         /\ BotEventsAt(calendar, StartOf(last.booking)) # BotEventsAt(last.cal, StartOf(last.booking))
    /\ (last.path = "inserted" /\ Colliding(last.booking, last.cal) # {}) => ~last.listOk

\* both conversations were offered the slot, both pressed Send with
\* allow_overlap = false, both dialogues ended, and the calendar holds two
\* events created for the slot
C12_Witness ==
  /\ SlotSend /\ last.path = "inserted"
  /\ \A c \in {"c1", "c3"} :
       /\ kb[c].shown /\ StartOf(last.booking) \in Range(kb[c].slots)
       /\ conv[c] = END
       /\ Sent(Owner(c)) = 1
  /\ Cardinality(BotEventsAt(calendar, StartOf(last.booking))) = 2

\* the events of cal that a listing of day d yields
ListedOn(cal, d) == {e \in cal : e.en > _dt_on(d, <<0, 0>>) /\ e.st < _dt_on(d, <<23, 59>>)}

\* scenario B: a call for a 60-minute service on a day whose only event runs
\* from 10:00 to 11:00, with a listing that answers
ScenarioB ==
  /\ SlotsCall /\ last.need = 60 /\ config.gcal /\ last.listOk
  /\ \E e \in last.cal :
       /\ ListedOn(last.cal, last.day) = {e}
       /\ e.status # "cancelled"
       /\ e.st = _dt_on(last.day, <<10, 0>>) /\ e.en = _dt_on(last.day, <<11, 0>>)

\* C21: scenario B.  With one calendar event 10:00-11:00 and buffer 15 the
\* effective busy interval is 09:45-11:15; for a 60-minute service no slot s
\* with 09:30 <= s < 11:15 is offered, and 11:15 is offered exactly when it
\* is after now.
C21_ScenarioB ==
  ScenarioB =>
    /\ list_busy_intervals(last.day, last.cal, config.gcal, last.listOk)
         = << <<_dt_on(last.day, <<9, 45>>), _dt_on(last.day, <<11, 15>>)>> >>
    /\ \A s \in Range(last.slots) :
         ~(_dt_on(last.day, <<9, 30>>) <= s /\ s < _dt_on(last.day, <<11, 15>>))
    /\ _dt_on(last.day, <<11, 15>>) \in Range(last.slots)
         <=> _dt_on(last.day, <<11, 15>>) > Now

\* the call of scenario B while the clock stands inside the busy interval:
\* 11:15 is the first slot offered
C21_Witness ==
  /\ ScenarioB
  /\ Now = _dt_on(last.day, <<11, 0>>)
  /\ last.slots # <<>>
  /\ last.slots[1] = _dt_on(last.day, <<11, 15>>)

\* the busy intervals list_busy_intervals returns in the step of
\* compute_free_slots_for_date recorded in last
BusyListed == list_busy_intervals(last.day, last.cal, config.gcal, last.listOk)

\* the padded intervals of the events listed in that step, last first: an
\* unsorted input of the merge step
PaddedLastFirst ==
  LET padded == Padded(Items(last.cal, last.day))
  IN [i \in 1..Len(padded) |-> padded[Len(padded) + 1 - i]]

\* the merge step of list_busy_intervals: the sort and the loop
MergeStep(result) == MergeLoop(SortByStart(result), 1, <<>>)

\* the intervals are in the order of their starts, and each starts strictly
\* after the one before it ends
Separated(busy) ==
  \A i \in 1..(Len(busy) - 1) :
    busy[i][1] < busy[i + 1][1] /\ busy[i][2] < busy[i + 1][1]

\* C22: the busy intervals returned by list_busy_intervals are sorted by
\* start, pairwise non-overlapping and non-adjacent: each starts strictly
\* after the one before it ends, whatever the order the padded intervals
\* come in and also when there are none.
C22_BusySortedAndSeparated ==
  SlotsCall =>
    /\ Separated(BusyListed)
    /\ Separated(MergeStep(PaddedLastFirst))

\* the padded intervals of two listed events touch and those of two others
\* overlap; fewer intervals are returned than events are listed, and more
\* than one
C22_Witness ==
  /\ SlotsCall
  /\ Len(BusyListed) >= 2
  /\ \E p \in BusyOfCall, q \in BusyOfCall : p[2] = q[1]
  /\ \E p \in BusyOfCall, q \in BusyOfCall : p # q /\ p[1] < q[1] /\ q[1] < p[2]
  /\ Len(BusyListed) < Cardinality(BusyOfCall)

\* time points are counted in half minutes, so that a gap between two
\* whole minutes is a point too.  Whether a point is covered changes only
\* at the ends of the intervals: the points to compare are the ends of
\* every interval and the half minutes next to them.
PointsToCompare(busy, B) ==
  {2 * p[k] + j : p \in B \cup Range(busy), k \in 1..2, j \in -1..1}

\* point x, in half minutes, lies in the closed interval p
Covers(p, x) == 2 * p[1] <= x /\ x <= 2 * p[2]

\* the points of the intervals of sequence busy are those of the set B
SamePoints(busy, B) ==
  \A x \in PointsToCompare(busy, B) :
    (\E i \in 1..Len(busy) : Covers(busy[i], x)) <=> (\E p \in B : Covers(p, x))

\* C23: the merged busy intervals returned by list_busy_intervals cover
\* exactly the time points of the union of the buffer-padded intervals of
\* the events listed: no point of a padded event is dropped and no point
\* outside every padded event is added.
C23_MergeKeepsThePoints ==
  SlotsCall =>
    /\ SamePoints(BusyListed, BusyOfCall)
    /\ (config.gcal /\ last.listOk) =>
         SamePoints(MergeStep(PaddedLastFirst), BusyOfCall)

\* a padded interval lies inside another, two overlap and two touch; the
\* list returned is shorter than the events are many
C23_Witness ==
  /\ SlotsCall
  /\ \E p \in BusyOfCall, q \in BusyOfCall : p[1] < q[1] /\ q[2] < p[2]
  /\ \E p \in BusyOfCall, q \in BusyOfCall : p[1] < q[1] /\ q[1] < p[2] /\ p[2] < q[2]
  /\ \E p \in BusyOfCall, q \in BusyOfCall : p[2] = q[1]
  /\ Len(BusyListed) >= 2
  /\ Len(BusyListed) < Cardinality(BusyOfCall)

\* C24: merging is idempotent.  The merge step of list_busy_intervals,
\* applied to the list the function returned, returns that list unchanged;
\* so does a second application to the result of merging an unsorted list.
C24_MergeIdempotent ==
  SlotsCall =>
    /\ MergeStep(BusyListed) = BusyListed
    /\ MergeStep(MergeStep(PaddedLastFirst)) = MergeStep(PaddedLastFirst)

\* a list of several intervals that came out of merging overlapping ones
C24_Witness ==
  /\ SlotsCall
  /\ Len(BusyListed) >= 3
  /\ Len(BusyListed) < Cardinality(BusyOfCall)
  /\ MergeStep(PaddedLastFirst) = BusyListed
  /\ PaddedLastFirst # BusyListed

\* ------------------------------------------------------------------------
\* C25.  A picked day without free slots.
\* ------------------------------------------------------------------------
\* calendar_handle has found no slot on the picked day
NoSlotPick == last.h = "calendar_day" /\ "near" \in DOMAIN last

\* the days of the keyboard of nearest free days
NearDays == [i \in 1..Len(last.near.days) |-> last.near.days[i].day]

\* C25: when a picked calendar day has no free slots, the dialogue stays in
\* the date selection and the nearest free days are offered: at most 7 days,
\* each strictly after the picked day and at most 30 days after it, in
\* ascending order, each with at least one free slot; the placeholder is
\* shown exactly when none is found.
C25_NearestDaysWithinThirty ==
  NoSlotPick =>
    /\ conv[last.c] = "ASK_DATE"
    /\ Len(NearDays) <= 7
    /\ \A i \in 1..Len(NearDays) :
         /\ NearDays[i] > last.picked
         /\ NearDays[i] <= last.picked + 30
         /\ compute_free_slots_for_date(NearDays[i], last.need, last.cal, config.gcal,
                                        last.nearOk, Now) # <<>>
         /\ last.near.days[i].count >= 1
    /\ \A i \in 1..(Len(NearDays) - 1) : NearDays[i] < NearDays[i + 1]
    /\ last.near.placeholder <=> (NearDays = <<>>)

\* the same without the bound of 30 days, which the search passes by one day
C25_NearestDaysWithinThirtyOne ==
  NoSlotPick =>
    /\ conv[last.c] = "ASK_DATE"
    /\ Len(NearDays) <= 7
    /\ \A i \in 1..Len(NearDays) :
         /\ NearDays[i] > last.picked
         /\ NearDays[i] <= last.picked + 31
         /\ compute_free_slots_for_date(NearDays[i], last.need, last.cal, config.gcal,
                                        last.nearOk, Now) # <<>>
    /\ \A i \in 1..(Len(NearDays) - 1) : NearDays[i] < NearDays[i + 1]
    /\ last.near.placeholder <=> (NearDays = <<>>)

C25_SevenDays == NoSlotPick /\ Len(NearDays) = 7

C25_Placeholder == NoSlotPick /\ last.near.placeholder

\* ------------------------------------------------------------------------
\* C26.  The shapes of what create_event_on_calendar returns.
\* ------------------------------------------------------------------------
\* create_event_on_calendar has returned (it has not raised)
CreateReturned == last.h = "create_event_on_calendar" /\ ~last.raised

UnavailableShape(v) == v.none

ConflictShape(v) ==
  /\ ~v.none
  /\ DOMAIN v.d = {"conflict", "events"}
  /\ v.d["conflict"] = TRUE
  /\ v.d["events"] # <<>>

CreatedShape(v) ==
  /\ ~v.none
  /\ {"eventId", "htmlLink"} \subseteq DOMAIN v.d
  /\ DOMAIN v.d \subseteq {"eventId", "htmlLink", "overlapped"}
  /\ v.d["eventId"] # EmptyText

\* C26: what create_event_on_calendar returns is exactly one of three
\* shapes and never a mix: a conflict (the conflicting intervals and no
\* event id), Created (the event id and the link, overlapped or not), or
\* Unavailable (None); overlapped = TRUE occurs only in a Created result for
\* a draft with allow_overlap = TRUE.
C26_OneOfThreeShapes ==
  CreateReturned =>
    LET v == last.created
    IN /\ Cardinality({shape \in {"conflict", "created", "unavailable"} :
                         \/ shape = "conflict" /\ ConflictShape(v)
                         \/ shape = "created" /\ CreatedShape(v)
                         \/ shape = "unavailable" /\ UnavailableShape(v)}) = 1
       /\ (~v.none /\ "overlapped" \in DOMAIN v.d) =>
            /\ CreatedShape(v)
            /\ v.d["overlapped"] = TRUE
            /\ last.booking["allow_overlap"] = TRUE

\* a Created result with the mark overlapped
C26_Witness ==
  /\ CreateReturned
  /\ CreatedShape(last.created)
  /\ "overlapped" \in DOMAIN last.created.d

C26_ConflictReached == CreateReturned /\ ConflictShape(last.created)

C26_UnavailableReached == CreateReturned /\ UnavailableShape(last.created) /\ config.gcal

C26_PlainCreatedReached ==
  CreateReturned /\ CreatedShape(last.created) /\ "overlapped" \notin DOMAIN last.created.d

\* ------------------------------------------------------------------------
\* C27.  The review log.
\* ------------------------------------------------------------------------
ReviewSubmitted == last.h = "review_text"

SecondCalls ==
  [cal : SUBSET DirectEvents, service : {TRUE}, listOk : {TRUE}] \cup
  {call \in [cal : {DirectEvents}, service : BOOLEAN, listOk : BOOLEAN] :
     ~(call.service /\ call.listOk)}

\* a second call for the day of the recorded call has the same busy intervals
SameBusy(call) ==
  list_busy_intervals(last.day, call.cal, call.service, call.listOk) = BusyListed

C28_EmptyBothWays ==
  /\ SlotsCall
  /\ config.gcal /\ last.listOk /\ BusyListed = <<>>
  /\ last.slots # <<>>
  /\ \E call \in SecondCalls : ~call.listOk /\ SameBusy(call)

\* ------------------------------------------------------------------------
\* C29.  The step grid and the first candidate of a free sub-interval.
\* ------------------------------------------------------------------------
\* instant t lies inside a busy interval of B
InsideBusy(t, B) == \E p \in B : p[1] <= t /\ t < p[2]

\* the starts of the free sub-intervals of the working window of day d: the
\* start of the window and the ends of busy intervals, where no busy
\* interval covers them
FreeStarts(d, B) ==
  {t \in {DayStart(d)} \cup {p[2] : p \in B} :
     DayStart(d) <= t /\ t < DayEnd(d) /\ ~InsideBusy(t, B)}

\* the first step boundary at or after t
NextBoundary(t) == CHOOSE g \in t..(t + SLOT_STEP_MIN - 1) : OnGrid(g)

\* C29: every slot offered by compute_free_slots_for_date lies on the step
\* grid (its minute a multiple of 15) inside [08:15, 18:00] and, but for
\* the day-end instant, in no busy interval; in each free sub-interval the first candidate is the start of
\* the sub-interval rounded up to the next step boundary: it is offered when
\* it is after now and the appointment fits, and nothing before it is.
C29_OnGridRoundedUp ==
  SlotsCall =>
    /\ \A t \in Range(last.slots) :
         /\ FormatHM(t)[2] % SLOT_STEP_MIN = 0
         /\ DayStart(last.day) <= t /\ t <= DayEnd(last.day)
         /\ t # DayEnd(last.day) => ~InsideBusy(t, BusyOfCall)
    /\ \A fs \in FreeStarts(last.day, BusyOfCall) :
         /\ \A t \in fs..(NextBoundary(fs) - 1) : t \notin Range(last.slots)
         /\ (/\ NextBoundary(fs) > Now
             /\ InsideFree(NextBoundary(fs), NextBoundary(fs) + last.need, last.day, BusyOfCall))
              => NextBoundary(fs) \in Range(last.slots)

\* a free sub-interval starts off the grid, at the end of a busy interval,
\* and the step boundary after it is the first slot offered in it
C29_Witness ==
  /\ SlotsCall
  /\ \E fs \in FreeStarts(last.day, BusyOfCall) :
       /\ ~OnGrid(fs)
       /\ InsideBusy(RoundedDown(fs), BusyOfCall)
       /\ NextBoundary(fs) \in Range(last.slots)

\* ------------------------------------------------------------------------
\* C30.  The duration of a service.
\* ------------------------------------------------------------------------
\* the characters of s that are no space
NoSpaces(s) == SelectSeq(s, LAMBDA ch : ch # " ")

\* the places of t where an integer starts
IntegerStarts(t) ==
  {i \in 1..Len(t) : t[i] \in Digits /\ (i = 1 \/ t[i - 1] \notin Digits)}

\* the place where the integer that starts at i ends
IntegerEnd(t, i) ==
  CHOOSE j \in i..Len(t) :
    /\ \A k \in i..j : t[k] \in Digits
    /\ j = Len(t) \/ t[j + 1] \notin Digits

RECURSIVE Decimal(_, _, _)
Decimal(t, i, j) == IF i > j THEN 0 ELSE Decimal(t, i, j - 1) * 10 + DigitVal(t[j])

IntegerAt(t, i) == Decimal(t, i, IntegerEnd(t, i))

\* m follows the rule for duration string s: 60 without an integer, the lone
\* integer, or the average of the first two rounded to a neighbour
FollowsRule(s, m) ==
  LET t == NoSpaces(s)
      starts == IntegerStarts(t)
  IN IF starts = {} THEN m = 60
     ELSE LET first == CHOOSE i \in starts : \A j \in starts : i <= j
          IN IF starts = {first} THEN m = IntegerAt(t, first)
             ELSE LET second == CHOOSE i \in starts \ {first} :
                                  \A j \in starts \ {first} : i <= j
                      sum == IntegerAt(t, first) + IntegerAt(t, second)
                  IN 2 * m - sum \in {-1, 0, 1}

DurationOf(name) == SERVICES[CHOOSE i \in 1..Len(SERVICES) : SERVICES[i].name = name].duration

\* C30: the duration is the average of the first two integers found in the
\* duration string, rounded to an integer ("60-75 min" gives 68, "75-90 min"
\* gives 82, "90-120 min" gives 105), the lone integer when only one is
\* found, and 60 when no integer is found or the service is unknown.
C30_DurationFromString ==
  /\ last.h = "_extract_minutes_from_duration_string" => FollowsRule(last.str, last.minutes)
  /\ last.h = "_service_duration_minutes" =>
       /\ last.name = "unknown" => last.minutes = 60
       /\ last.name # "unknown" => FollowsRule(DurationOf(last.name), last.minutes)
       /\ last.name = "day_makeup" => last.minutes = 68
       /\ last.name = "evening_makeup" => last.minutes = 82
       /\ last.name = "wedding_makeup" => last.minutes = 105
       /\ last.name = "brows" => last.minutes = 30

\* a string with three integers whose first two have an odd sum
C30_Witness ==
  /\ last.h = "_extract_minutes_from_duration_string"
  /\ Cardinality(IntegerStarts(NoSpaces(last.str))) = 3
  /\ LET t == NoSpaces(last.str)
         first == CHOOSE i \in IntegerStarts(t) : \A j \in IntegerStarts(t) : i <= j
         second == CHOOSE i \in IntegerStarts(t) \ {first} :
                     \A j \in IntegerStarts(t) \ {first} : i <= j
     IN /\ (IntegerAt(t, first) + IntegerAt(t, second)) % 2 = 1
        /\ 2 * last.minutes # IntegerAt(t, first) + IntegerAt(t, second)

\* the service of "75-90 min", whose average 82.5 is rounded to 82
C30_ExampleReached == last.h = "_service_duration_minutes" /\ last.minutes = 82

C30_LoneReached ==
  /\ last.h = "_extract_minutes_from_duration_string"
  /\ Cardinality(IntegerStarts(NoSpaces(last.str))) = 1
  /\ last.minutes = 75

C30_NoneReached ==
  /\ last.h = "_extract_minutes_from_duration_string"
  /\ last.str # <<>> /\ last.minutes = 60

\* ------------------------------------------------------------------------
\* C31.  Bookings whose collision checks are all answered.
\* ------------------------------------------------------------------------
\* the events the bot created
BotEvents(cal) == {e \in cal : e.id[1] = "e"}

\* two events neither intersect nor lie closer than the buffer
Apart(e, f) == e.en + BUFFER_MIN <= f.st \/ f.en + BUFFER_MIN <= e.st

\* C31: when every listing of a collision check answers and shows all
\* earlier inserts, and nobody else writes to the calendar, no two events
\* created for slot-picked times with allow_overlap = false intersect or lie
\* closer than the buffer: a Send that collides with an earlier event is
\* answered with a conflict and creates nothing.
C31_ListedBookingsApart ==
  /\ \A e \in BotEvents(calendar) : \A f \in BotEvents(calendar) \ {e} : Apart(e, f)
  /\ (SlotSend /\ config.gcal /\ Colliding(last.booking, last.cal) # {}) =>
       /\ last.path = "conflict"
       /\ calendar = last.cal

\* the two users have each created an event, and the Send of a colliding
\* slot that was offered before the other's event existed got a conflict
C31_Witness ==
  /\ SlotSend /\ last.path = "conflict"
  /\ Colliding(last.booking, last.cal) # {}
  /\ StartOf(last.booking) \notin {e.st : e \in last.cal}

C31_TwoApartReached == Cardinality(BotEvents(calendar)) = 2

\* ------------------------------------------------------------------------
\* C32.  What a conflict leaves alone.
\* ------------------------------------------------------------------------
\* the fields of the draft a retried time selection goes on with
KeptKeys == {"service", "date", "name", "phone", "notes"}

\* C32: on a conflict outcome book_confirm appends nothing to the local store
\* or the spreadsheet, sends no operator notification, and keeps the draft
\* (service, date, name, phone, notes) for the retried time selection.
C32_ConflictKeepsDraftWritesNothing ==
  [][(last'.h = "book_confirm_send" /\ last'.path = "conflict") =>
       LET u == Owner(last'.c)
       IN /\ csv' = csv
          /\ admin' = admin
          /\ ~last'.sheet.offered
          /\ calendar' = calendar
          /\ Has(user_data'[u], "booking")
          /\ \A k \in KeptKeys :
               /\ Has(user_data[u]["booking"], k)
               /\ Has(user_data'[u]["booking"], k)
               /\ user_data'[u]["booking"][k] = user_data[u]["booking"][k]
          /\ conv'[last'.c] = "ASK_TIME"]_vars

\* a Send answered with a conflict: the draft is there, the time selection is
\* open again, and no row was written
C32_Witness ==
  /\ last.h = "book_confirm_send" /\ last.path = "conflict"
  /\ HasDraft(last.c)
  /\ KeptKeys \subseteq DOMAIN user_data[Owner(last.c)]["booking"]
  /\ conv[last.c] = "ASK_TIME"
  /\ Len(csv) = last.rows /\ admin = last.asked

\* ------------------------------------------------------------------------
\* C33.  Free-text times.
\* ------------------------------------------------------------------------
\* handler h has stored the text it was given as the time of the draft and
\* moved on to the name
TimeStoredBy(h) ==
  /\ last.h = h /\ ~last.raised
  /\ last.from \in {"ASK_TIME", "ASK_TIME_OTHER"}
  /\ conv[last.c] = "ASK_NAME"

\* the text stored is a time, and on the date of the draft it lies after now
StoredTimeAhead ==
  LET ud == user_data[Owner(last.c)]
  IN /\ _valid_time(last.text)
     /\ Has(ud, "booking") /\ Has(ud["booking"], "date")
     /\ ud["booking"]["time"] = last.text
     /\ _dt_on(ParseDate(ud["booking"]["date"]), last.text) > Now

\* C33: a free-text time is stored in the draft only if it parses as HH:MM
\* and the resulting start on the draft's date is strictly after now, by
\* book_time_other and by book_time alike.
C33_TypedTimeAhead ==
  (TimeStoredBy("book_time_other") \/ TimeStoredBy("book_time")) => StoredTimeAhead

\* the same for book_time_other alone, which compares the start with now
C33_OtherTimeAhead == TimeStoredBy("book_time_other") => StoredTimeAhead

C33_OtherStored == TimeStoredBy("book_time_other")

\* a draft in BOOK_CONFIRM whose typed time lies before the first instant of
\* the clock
C33_PastTimeConfirmed ==
  \E c \in Convs :
    /\ conv[c] = "BOOK_CONFIRM" /\ HasDraft(c)
    /\ chosen[Owner(c)] = "typed"
    /\ StartOf(user_data[Owner(c)]["booking"]) <= Clock[1]

\* ------------------------------------------------------------------------
\* C34.  The placeholder button cal:noop.
\* ------------------------------------------------------------------------
\* C34: cal:noop is a no-op: in every state where it is accepted (ASK_DATE
\* and ASK_TIME) it leaves both the dialogue state and the draft unchanged.
C34_NoopChangesNothing ==
  [][last'.h = "calendar_noop" =>
       /\ conv' = conv
       /\ user_data' = user_data]_vars

\* what holds: the draft is left unchanged in both states, and the dialogue
\* state is left unchanged in ASK_DATE
C34_NoopKeepsDraft ==
  [][last'.h = "calendar_noop" =>
       /\ user_data' = user_data
       /\ conv[last'.c] = "ASK_DATE" => conv' = conv]_vars

\* cal:noop pressed in ASK_TIME: the dialogue is in ASK_DATE afterwards
C34_NoopLeavesTimeSelection ==
  /\ last.h = "calendar_noop"
  /\ last.from = "ASK_TIME"
  /\ conv[last.c] = "ASK_DATE"

\* ------------------------------------------------------------------------
\* C35.  The navigation buttons of the month grid.
\* ------------------------------------------------------------------------
GridShown == "grid" \in DOMAIN last

MonthAfter(y, m) == IF m = 12 THEN <<y + 1, 1>> ELSE <<y, m + 1>>

MonthBefore(y, m) == IF m = 1 THEN <<y - 1, 12>> ELSE <<y, m - 1>>

\* C35: in the date grid shown for month M the button "next month" targets
\* month M+1 and the button "previous month" targets month M-1, for every
\* anchor the handlers pass: today, the 15th of a navigated month, or a
\* previously picked day.
C35_NavigationByOneMonth ==
  GridShown =>
    /\ last.grid.next = MonthAfter(last.grid.year, last.grid.month)
    /\ last.grid.prev = MonthBefore(last.grid.year, last.grid.month)

\* what holds: the buttons target the neighbouring months when the anchor is
\* the 15th, and from any anchor they never target the month shown
C35_NavigationFromFifteenth ==
  GridShown =>
    /\ last.grid.anchor[3] = 15 =>
         /\ last.grid.next = MonthAfter(last.grid.year, last.grid.month)
         /\ last.grid.prev = MonthBefore(last.grid.year, last.grid.month)
    /\ last.grid.next # <<last.grid.year, last.grid.month>>
    /\ last.grid.prev # <<last.grid.year, last.grid.month>>

\* the grid of January anchored at today, the 31st: "next month" shows March
C35_JanuaryToMarch ==
  /\ GridShown /\ last.h = "show_today"
  /\ last.grid.month = 1 /\ last.grid.anchor[3] = 31
  /\ last.grid.next[2] = 3

\* the grid of May anchored at the picked day, the 1st: "previous month"
\* shows March
C35_MayToMarch ==
  /\ GridShown /\ last.h = "change_date"
  /\ last.grid.month = 5 /\ last.grid.anchor[3] = 1
  /\ last.grid.prev[2] = 3

C35_NavigatedReached == GridShown /\ last.h = "show_month"

\* ------------------------------------------------------------------------
\* C36: the two safe message helpers.
\* ------------------------------------------------------------------------
\* a call of safe_reply_text or of safe_edit_message_text
SafeCall == NetCall /\ last.call \in {"reply_text", "edit_message_text"}

\* the attempts of the last call that ended in an exception
FailedAttempts == {i \in 1..last.attempts : last.net[i] # "ok"}

\* at most three attempts, with waits of 0, 1.5 and 3.0 seconds before
\* them; the call stops at the first success and returns its answer,
\* returns None after the third failure, and raises neither a timeout nor
\* a network error
WithinThreeAttempts ==
  /\ last.attempts \in 1..3
  /\ last.waits = SubSeq(<<0, 15, 30>>, 1, last.attempts)
  /\ \A i \in 1..(last.attempts - 1) : last.net[i] # "ok"
  /\ last.net[last.attempts] = "ok" <=> last.result = "returned"
  /\ (last.attempts = 3 /\ last.net[3] \in Transient) => last.result = "None"
  /\ last.result = "raised" => last.net[last.attempts] \notin Transient
  /\ last.result # "returned" => (last.attempts = 3 \/ last.result = "raised")

\* safe_edit_message_text makes no attempt after one that ended in a
\* BadRequest
NoRetryAfterBadRequest ==
  last.call = "edit_message_text" =>
    \A i \in 1..last.attempts : last.net[i] = "BadRequest" => i = last.attempts

\* C36, as stated: safe_reply_text and safe_edit_message_text make at most
\* three attempts with waits of 0, 1.5 and 3.0 seconds before them, stop at
\* the first success, return None after the last failure and never raise a
\* timeout or a network error; safe_edit_message_text does not retry after
\* a BadRequest.
C36_SafeCallsBoundedNoRetryOnBadRequest ==
  SafeCall => (WithinThreeAttempts /\ NoRetryAfterBadRequest)

\* C36, what holds: the same without the last part; a BadRequest of
\* edit_message_text is taken by the clause of NetworkError, so the attempt
\* is repeated like a network failure.
C36_SafeCallsBounded ==
  SafeCall => WithinThreeAttempts

\* reached: safe_edit_message_text whose first attempt ended in a
\* BadRequest waited 1.5 seconds and made a second attempt, which succeeded
C36_BadRequestRetried ==
  /\ SafeCall /\ last.call = "edit_message_text"
  /\ last.net[1] = "BadRequest" /\ last.net[2] = "ok"
  /\ last.attempts = 2 /\ last.waits = <<0, 15>> /\ last.result = "returned"

\* reached: a safe helper whose three attempts all timed out returned None
C36_ThreeTimeoutsNone ==
  /\ SafeCall /\ \A i \in 1..3 : last.net[i] = "TimedOut"
  /\ last.attempts = 3 /\ last.result = "None"

====
